---- MODULE Spec2Model ----
(***************************************************************************)
(* A model of the employee virtual assistant's Lambda functions:           *)
(*   - invoke_agent.py            the runtime request handler              *)
(*   - get_conversation_history.py / get_conversation_messages.py          *)
(*   - process_upload.py          the ingestion trigger                    *)
(*   - create_oss.py              collection and policy provisioning       *)
(*   - create_knowledge_bases.py  knowledge-base provisioning              *)
(*   - create_agents.py           specialist agents and the supervisor     *)
(* The AWS services the functions call are the environment: each call      *)
(* either returns or raises, chosen nondeterministically, and the service  *)
(* state the calls read and write (agents, policies, the conversation      *)
(* table) is part of the model's state.                                    *)
(***************************************************************************)
EXTENDS Integers, Sequences, FiniteSets, TLC

(***************************************************************************)
(* Bounds of the model.                                                    *)
(***************************************************************************)
\* the wall clock runs over the seconds 0..MaxTime
MaxTime == 2
\* requests served by the runtime handler in one behaviour
MaxRequests == 2
\* failed attempts of one request that got part of the stream before raising
MaxPartial == 1
\* sessions a user opens after the turn under study, and turns in each of them
MaxLaterSessions == 21
MaxTurnsPerSession == 5

(***************************************************************************)
(* Runtime request handler: invoke_agent.py                                *)
(***************************************************************************)
VARIABLES
    conversation_table, \* the DynamoDB table: a set of items, key (userId, timestamp)
    now,                \* the wall clock, in seconds
    rt_pc,              \* "idle" | "retry" | "done": position of the handler
    user_details,       \* userId extracted from the Authorization header
    session_id,         \* body.sessionId, or a fresh uuid
    input_text,         \* body.message
    attempt,            \* the handler's local `attempt`
    full_response,      \* the handler's local `full_response`: the chunks read so far, each
                        \* "partial" (read in an attempt that then raised) or "answer"
    thinking_steps,     \* the handler's local `thinking_steps`
    statusCode,         \* 0 while running; 200, 400, 500; -1 when the handler raised
    invoke_calls,       \* number of client.invoke_agent calls of this request
    sleeps,             \* the arguments of the time.sleep calls of this request, in order
    save_calls,         \* number of save_conversation calls of this request
    put_log,            \* the items this request put into the table, in order
    put_errors,         \* number of put_item calls of this request that raised
    served              \* requests completed so far (also numbers the uuid4 session ids)

rtVars == <<conversation_table, now, rt_pc, user_details, session_id, input_text,
            attempt, full_response, thinking_steps, statusCode, invoke_calls,
            sleeps, save_calls, put_log, put_errors, served>>

\* retry configuration of the handler
max_retries == 5
base_delay == 1

RAISED == -1

\* Authorization headers: none, one that is no bearer token, a JWT of user u1
AuthHeaders == {"missing", "malformed", "jwt_u1"}

\* extract_user_details: the anonymous identity unless the header carries a decodable JWT
extract_user_details(auth) ==
    IF auth = "jwt_u1" THEN "u1" ELSE "anonymous"

\* Request bodies. "absent": the event has no body key (the default '{}' is parsed);
\* "null": the event carries body = None (json.loads raises TypeError);
\* otherwise a JSON object with an optional message and an optional sessionId.
NONE == "<none>"
Messages == {NONE, "", "q1"}
SessionIds == {NONE, "s1"}
Bodies == {[kind |-> "absent", message |-> NONE, sessionId |-> NONE],
           [kind |-> "null", message |-> NONE, sessionId |-> NONE]}
          \cup [kind : {"json"}, message : Messages, sessionId : SessionIds]

\* str(uuid.uuid4()): a session id no earlier request has used
Uuid4(n) == <<"uuid0", "uuid1", "uuid2", "uuid3", "uuid4">>[n + 1]

Pow2(n) == IF n = 0 THEN 1 ELSE IF n = 1 THEN 2 ELSE IF n = 2 THEN 4
           ELSE IF n = 3 THEN 8 ELSE 16

\* table.put_item: an item with the same (userId, timestamp) key is replaced
put_item_dropped(table, item) == table
put_item(table, item) ==
    {i \in table : ~(i.userId = item.userId /\ i.timestamp = item.timestamp)}
        \cup {item}

\* the item save_conversation builds (messageId, username and email carry no
\* behaviour of their own and are left out)
ConversationItem(user, session, query, response, steps, ts) ==
    [userId |-> user, timestamp |-> ts, sessionId |-> session,
     userQuery |-> query, response |-> response, thinkingSteps |-> steps]

\* save_conversation: one put_item stamped with the current second; an error of
\* the put is caught and logged, never raised
save_conversation(user, session, query, response, steps, put_ok) ==
    LET item == ConversationItem(user, session, query, response, steps, now)
    IN  /\ save_calls' = save_calls + 1
        /\ IF put_ok
           THEN /\ conversation_table' = put_item(conversation_table, item)
                /\ put_log' = Append(put_log, item)
                /\ UNCHANGED put_errors
           ELSE /\ put_errors' = put_errors + 1
                /\ UNCHANGED <<conversation_table, put_log>>

RtInit ==
    /\ conversation_table = {}
    /\ now = 0
    /\ rt_pc = "idle"
    /\ user_details = NONE
    /\ session_id = NONE
    /\ input_text = NONE
    /\ attempt = 0
    /\ full_response = <<>>
    /\ thinking_steps = <<>>
    /\ statusCode = 0
    /\ invoke_calls = 0
    /\ sleeps = <<>>
    /\ save_calls = 0
    /\ put_log = <<>>
    /\ put_errors = 0
    /\ served = 0

\* handler, lines 26-60: parse the event, validate the message, set up the retry loop
ParseAndValidate(body, auth) ==
    /\ rt_pc = "idle"
    /\ served < MaxRequests
    /\ attempt' = 0
    /\ full_response' = <<>>
    /\ thinking_steps' = <<>>
    /\ invoke_calls' = 0
    /\ sleeps' = <<>>
    /\ save_calls' = 0
    /\ put_log' = <<>>
    /\ put_errors' = 0
    /\ input_text' = body.message
    /\ IF body.kind = "null"
       THEN \* json.loads(None) raises before anything else is read
            /\ statusCode' = RAISED
            /\ rt_pc' = "done"
            /\ UNCHANGED <<user_details, session_id>>
       ELSE /\ session_id' = IF body.sessionId = NONE THEN Uuid4(served) ELSE body.sessionId
            /\ user_details' = extract_user_details(auth)
            /\ IF body.message \in {NONE, ""}
               THEN /\ statusCode' = 400
                    /\ rt_pc' = "done"
               ELSE /\ statusCode' = 0
                    /\ rt_pc' = "retry"
    /\ UNCHANGED <<conversation_table, now, served>>

\* time.sleep(base_delay * (2 ** (attempt - 1))), `a` being the incremented attempt
BackoffLinear(a) == base_delay * a
Backoff(a) == base_delay * Pow2(a - 1)

\* the except branch of the retry loop touches neither the table nor save_conversation
FailedAttemptSaves ==
    save_conversation(user_details, session_id, input_text, full_response,
                      thinking_steps, TRUE)
FailedAttemptStore == UNCHANGED <<conversation_table, save_calls, put_log, put_errors>>

\* one pass of the retry loop in which invoke_agent, or reading its stream, raises;
\* `partial`: a chunk and a rationale were read before the error
InvokeRaises(partial) ==
    /\ rt_pc = "retry"
    /\ attempt < max_retries
    /\ partial => Len(full_response) < MaxPartial
    /\ invoke_calls' = invoke_calls + 1
    /\ full_response' = IF partial THEN Append(full_response, "partial") ELSE full_response
    /\ thinking_steps' = IF partial THEN Append(thinking_steps, "partial") ELSE thinking_steps
    /\ attempt' = attempt + 1
    /\ FailedAttemptStore
    /\ IF attempt + 1 >= max_retries
       THEN /\ statusCode' = 500
            /\ rt_pc' = "done"
            /\ UNCHANGED sleeps
       ELSE /\ sleeps' = Append(sleeps, Backoff(attempt + 1))
            /\ UNCHANGED <<statusCode, rt_pc>>
    /\ UNCHANGED <<now, user_details, session_id, input_text, served>>

\* one pass of the retry loop in which the stream is read to its end: the
\* conversation is saved and the loop is left
InvokeSucceeds(put_ok) ==
    /\ rt_pc = "retry"
    /\ attempt < max_retries
    /\ invoke_calls' = invoke_calls + 1
    /\ full_response' = Append(full_response, "answer")
    /\ thinking_steps' = Append(thinking_steps, "answer")
    /\ save_conversation(user_details, session_id, input_text,
                         Append(full_response, "answer"),
                         Append(thinking_steps, "answer"), put_ok)
    /\ statusCode' = 200
    /\ rt_pc' = "done"
    /\ UNCHANGED <<now, user_details, session_id, input_text, attempt, sleeps, served>>

\* the response has been returned; the next invocation of the Lambda may start
NextRequest ==
    /\ rt_pc = "done"
    /\ rt_pc' = "idle"
    /\ served' = served + 1
    /\ statusCode' = 0
    /\ user_details' = NONE
    /\ session_id' = NONE
    /\ input_text' = NONE
    /\ attempt' = 0
    /\ full_response' = <<>>
    /\ thinking_steps' = <<>>
    /\ invoke_calls' = 0
    /\ sleeps' = <<>>
    /\ save_calls' = 0
    /\ put_log' = <<>>
    /\ put_errors' = 0
    /\ UNCHANGED <<conversation_table, now>>

\* a second of wall-clock time passes
Tick ==
    /\ now < MaxTime
    /\ now' = now + 1
    /\ UNCHANGED <<conversation_table, rt_pc, user_details, session_id, input_text,
                   attempt, full_response, thinking_steps, statusCode, invoke_calls,
                   sleeps, save_calls, put_log, put_errors, served>>

(***************************************************************************)
(* Identity extraction: extract_user_details (invoke_agent.py, lines       *)
(* 132-209) on the structure of the event.  A header string is kept as its *)
(* first word and the words after it (the result of split(' ')), a token   *)
(* as the sequence of its dot-separated parts, and a payload part as the   *)
(* number of its characters modulo 4 and what its bytes hold.              *)
(***************************************************************************)
VARIABLES
    id_event,           \* the event extract_user_details is called with
    id_pc,              \* "call" | "returned" | "raised"
    id_result           \* the dict it returned

idVars == <<id_event, id_pc, id_result>>

\* the dict of the three return statements for an unknown caller
Anonymous == [userId |-> "anonymous", username |-> "anonymous", email |-> "anonymous"]

\* the outcome of a piece of code: a returned value, or an exception
Returns(value) == [raised |-> FALSE, value |-> value]
Raises == [raised |-> TRUE, value |-> [userId |-> NONE, username |-> NONE, email |-> NONE]]

\* header values: no value (the key is absent or null), and strings
NoValue == [scheme |-> NONE, rest |-> <<>>]
EmptyString == [scheme |-> "", rest |-> <<>>]
HeaderString(scheme, rest) == [scheme |-> scheme, rest |-> rest]

\* what the bytes of a payload part hold
PayloadContents ==
    {"not_base64", "not_utf8", "not_json", "json_list", "json_object",
     "json_sub", "json_claims"}

\* the payload parts of the inputs: chars is len(payload) % 4, data the number of
\* its base64 characters modulo 4
Payloads ==
    {[chars |-> 0, data |-> 0, content |-> "empty"]}
        \cup {[chars |-> n, data |-> n, content |-> c] :
                n \in 0..3, c \in PayloadContents}

\* the other parts of a token carry nothing the function reads
Tokens ==
    {<<"">>, <<"header">>, <<"header", "payload">>,
     <<"header", "payload", "signature", "more">>}
        \cup {<<"header", p, "signature">> : p \in Payloads}

HeaderValues ==
    {NoValue, EmptyString, HeaderString("Bearer", <<>>),
     HeaderString("Basic", <<<<"credentials">>>>),
     HeaderString("bearer", <<<<"header", [chars |-> 0, data |-> 0,
                                           content |-> "json_claims"], "signature">>>>)}
        \cup {HeaderString("Bearer", <<t>>) : t \in Tokens}
        \cup {HeaderString("Bearer", <<<<"">>, t>>) : t \in {<<"header">>}}

\* the events: no 'headers' key, a null 'headers', or a dict of headers
Events ==
    {[headers |-> k, Authorization |-> NoValue, authorization |-> NoValue] :
        k \in {"absent", "null"}}
        \cup {[headers |-> "dict", Authorization |-> A, authorization |-> a] :
                A \in HeaderValues, a \in {NoValue, EmptyString,
                                           HeaderString("Basic", <<<<"credentials">>>>),
                                           HeaderString("Bearer", <<<<"header">>>>)}}
        \cup {[headers |-> "dict", Authorization |-> NoValue, authorization |-> a] :
                a \in HeaderValues}

\* Python's truth value of a header value: None and '' are false
Truthy(h) == h # NoValue /\ h # EmptyString

\* auth_header.startswith('Bearer ')
StartsWithBearer(h) == h.scheme = "Bearer" /\ Len(h.rest) >= 1

\* lines 175-177: '=' characters are added up to a multiple of 4
Pad(payload) ==
    LET padding == 4 - (payload.chars % 4)
    IN  IF padding # 4 THEN [payload EXCEPT !.chars = (payload.chars + padding) % 4]
        ELSE payload

\* base64.b64decode: the string must be a multiple of 4 long, with a number of data
\* characters that is not 1 more than a multiple of 4
b64decode(payload) ==
    IF payload.chars # 0 \/ payload.data = 1 \/ payload.content = "not_base64"
    THEN Raises ELSE Returns(payload.content)

\* bytes.decode('utf-8')
decode(bytes) == IF bytes = "not_utf8" THEN Raises ELSE Returns(bytes)

\* the claims of the JSON objects of the inputs
Claims(text) ==
    CASE text = "json_sub" -> [sub |-> "u1"]
      [] text = "json_claims" -> [sub |-> "u1", username |-> "alice", email |-> "alice@example.com"]
      [] OTHER -> <<>>

\* json.loads: raises on text that is not JSON
loads(text) == IF text \in {"empty", "not_json"} THEN Raises ELSE Returns(text)

\* dict.get(key, 'anonymous') on the decoded claims
Get(claims, key) == IF key \in DOMAIN claims THEN claims[key] ELSE "anonymous"

\* lines 161-193, the body of the inner try
TokenDetails(token) ==
    IF Len(token) # 3 THEN Returns(Anonymous)
    ELSE LET bytes == b64decode(Pad(token[2]))
             text == IF bytes.raised THEN Raises ELSE decode(bytes.value)
             decoded == IF text.raised THEN Raises ELSE loads(text.value)
         IN  IF decoded.raised THEN Raises
             ELSE IF decoded.value = "json_list" THEN Raises
             ELSE Returns([userId |-> Get(Claims(decoded.value), "sub"),
                           username |-> Get(Claims(decoded.value), "username"),
                           email |-> Get(Claims(decoded.value), "email")])

\* an except branch that returns the anonymous dict (lines 195-201 and 203-209)
Propagate(outcome) == outcome
ExceptAnonymous(outcome) == IF outcome.raised THEN Returns(Anonymous) ELSE outcome

\* lines 143-201, the body of the outer try: headers.get raises on a null 'headers'
HeaderDetails(event) ==
    IF event.headers = "null" THEN Raises
    ELSE LET auth_header == IF Truthy(event.Authorization) THEN event.Authorization
                            ELSE event.authorization
         IN  IF ~Truthy(auth_header) \/ ~StartsWithBearer(auth_header)
             THEN Returns(Anonymous)
             ELSE ExceptAnonymous(TokenDetails(auth_header.rest[1]))

\* extract_user_details(event)
ExtractUserDetails(event) == ExceptAnonymous(HeaderDetails(event))

IdIdle ==
    /\ id_event = [headers |-> "absent", Authorization |-> NoValue,
                   authorization |-> NoValue]
    /\ id_pc = "call"
    /\ id_result = Anonymous

IdInit ==
    /\ id_event \in Events
    /\ id_pc = "call"
    /\ id_result = Anonymous

\* line 24 of the handler: user_details = extract_user_details(event)
CallExtractUserDetails ==
    /\ id_pc = "call"
    /\ LET outcome == ExtractUserDetails(id_event)
       IN  /\ id_pc' = IF outcome.raised THEN "raised" ELSE "returned"
           /\ id_result' = outcome.value
    /\ UNCHANGED id_event

(***************************************************************************)
(* Conversation retrieval: get_conversation_history.py (by user) and       *)
(* get_conversation_messages.py (by session).                              *)
(***************************************************************************)
VARIABLES
    history_response,   \* the last response of get_conversation_history
    messages_response   \* the last response of get_conversation_messages

rdVars == <<history_response, messages_response>>

\* Limit=100 of the by-user query, and the cut to 20 sessions
QueryLimit == 100
SessionLimit == 20

NoResponse == [statusCode |-> 0, userId |-> NONE, sessionId |-> NONE, body |-> <<>>]

RdInit ==
    /\ history_response = NoResponse
    /\ messages_response = NoResponse

RECURSIVE SameSecond(_)
\* items of one timestamp, in the order the table returns them
SameSecond(items) ==
    IF items = {} THEN <<>>
    ELSE LET m == CHOOSE x \in items : TRUE
         IN  <<m>> \o SameSecond(items \ {m})

RECURSIVE SortDescBetween(_, _, _)
\* the items, whose timestamps lie in lo..hi, latest first
SortDescBetween(items, lo, hi) ==
    IF items = {} THEN <<>>
    ELSE IF lo = hi THEN SameSecond(items)
    ELSE LET mid == lo + ((hi - lo) \div 2)
         IN  SortDescBetween({i \in items : i.timestamp > mid}, mid + 1, hi)
               \o SortDescBetween({i \in items : i.timestamp <= mid}, lo, mid)

\* a set of items as a sequence, latest timestamp first (ScanIndexForward=False)
SortDesc(items) ==
    IF items = {} THEN <<>>
    ELSE LET ts == {i.timestamp : i \in items}
         IN  SortDescBetween(items, CHOOSE t \in ts : \A u \in ts : t <= u,
                             CHOOSE t \in ts : \A u \in ts : u <= t)

Reverse(seq) == [k \in 1..Len(seq) |-> seq[Len(seq) + 1 - k]]

\* a set of items as a sequence, earliest timestamp first (ScanIndexForward=True)
SortAsc(items) == Reverse(SortDesc(items))

Take(seq, n) == SubSeq(seq, 1, IF Len(seq) < n THEN Len(seq) ELSE n)

\* dynamodb_client.query on the table key: the user's items, latest first, at most Limit
QueryByUserAscending(table, user) ==
    Take(SortAsc({i \in table : i.userId = user}), QueryLimit)
QueryByUser(table, user) ==
    Take(SortDesc({i \in table : i.userId = user}), QueryLimit)

\* the loop over the query result: the dict `sessions` ends with one entry per
\* session of the items, that of the session's newest item (an item replaces the
\* entry of its session only when it is strictly newer, so the first of equals stays)
LatestPerSession(items) ==
    {LET of == {n \in 1..Len(items) : items[n].sessionId = s}
         best == CHOOSE n \in of : \A o \in of :
                    \/ items[o].timestamp < items[n].timestamp
                    \/ items[o].timestamp = items[n].timestamp /\ n <= o
     IN  [sessionId |-> s, timestamp |-> items[best].timestamp,
          latestMessage |-> items[best].userQuery]
     : s \in {items[n].sessionId : n \in 1..Len(items)}}

\* get_conversation_history.handler: the latest turn of each session among the
\* user's latest QueryLimit items, latest session first, cut to SessionLimit
ConversationHistory(table, user) ==
    Take(SortDesc(LatestPerSession(QueryByUser(table, user))), SessionLimit)

\* the frontend message built from an item
Message(item) ==
    [timestamp |-> item.timestamp, userQuery |-> item.userQuery,
     response |-> item.response, thinkingSteps |-> item.thinkingSteps]

RECURSIVE MapMessages(_)
MapMessages(items) ==
    IF items = <<>> THEN <<>> ELSE <<Message(Head(items))>> \o MapMessages(Tail(items))

\* the loop over the items of a session: messages of other users are skipped
AllItems(items, user) == items
OwnItems(items, user) == SelectSeq(items, LAMBDA i : i.userId = user)

\* get_conversation_messages.handler, lines 47-91: the items of the session from
\* the sessionId-timestamp index (the scan of the fallback reads the same items),
\* earliest first, without the items of other users
ConversationMessages(table, user, session) ==
    MapMessages(OwnItems(SortAsc({i \in table : i.sessionId = session}), user))

\* get_conversation_history.handler
GetHistory(auth) ==
    /\ rt_pc = "done"
    /\ history_response = NoResponse
    /\ history_response' =
         [statusCode |-> 200, userId |-> extract_user_details(auth), sessionId |-> NONE,
          body |-> ConversationHistory(conversation_table, extract_user_details(auth))]
    /\ UNCHANGED <<rtVars, messages_response>>

\* get_conversation_messages.handler; `session` is pathParameters.sessionId
GetMessages(auth, session) ==
    /\ rt_pc = "done"
    /\ messages_response = NoResponse
    /\ messages_response' =
         IF session = NONE
         THEN [statusCode |-> 400, userId |-> extract_user_details(auth),
               sessionId |-> NONE, body |-> <<>>]
         ELSE [statusCode |-> 200, userId |-> extract_user_details(auth),
               sessionId |-> session,
               body |-> ConversationMessages(conversation_table,
                                             extract_user_details(auth), session)]
    /\ UNCHANGED <<rtVars, history_response>>

(***************************************************************************)
(* The round trip of one Conversation Turn: the turn is written by a       *)
(* successful request at second 0 into a table that holds earlier turns,   *)
(* later requests of the same user add turns in other sessions (and in the *)
(* same one), and then the two retrieval handlers are called.              *)
(***************************************************************************)
SessionName(j) ==
    <<"o01", "o02", "o03", "o04", "o05", "o06", "o07", "o08", "o09", "o10",
      "o11", "o12", "o13", "o14", "o15", "o16", "o17", "o18", "o19", "o20",
      "o21", "o22", "o23", "o24", "o25", "o26", "o27", "o28", "o29", "o30">>[j]

\* turns written before second 0: one of u1 in s1, one of the anonymous user in
\* s1, one of u1 in s2
EarlierTurns ==
    {ConversationItem("u1", "s1", "q0", <<"answer">>, <<"answer">>, -1),
     ConversationItem("anonymous", "s1", "q0", <<"answer">>, <<"answer">>, -1),
     ConversationItem("u1", "s2", "q0", <<"answer">>, <<"answer">>, -2)}

\* the turns of m later sessions of `user` with k turns each, one per second,
\* the sessions taking turns
LaterItems(user, m, k) ==
    {ConversationItem(user, SessionName(j), "q2", <<"answer">>, <<"answer">>,
                      (t - 1) * m + j) : j \in 1..m, t \in 1..k}

\* successful requests served after the turn under study: m sessions of k turns,
\* and, with `same`, one more turn in the session of the turn under study
LaterTurns(m, k, same) ==
    /\ rt_pc = "done"
    /\ statusCode = 200
    /\ history_response = NoResponse
    /\ messages_response = NoResponse
    /\ \A i \in conversation_table : i.timestamp <= now
    /\ m >= 1 \/ same
    /\ conversation_table' =
         conversation_table \cup LaterItems(user_details, m, k)
           \cup (IF same
                 THEN {ConversationItem(user_details, session_id, "q3", <<"answer">>,
                                        <<"answer">>, m * k + 1)}
                 ELSE {})
    /\ UNCHANGED <<now, rt_pc, user_details, session_id, input_text, attempt,
                   full_response, thinking_steps, statusCode, invoke_calls, sleeps,
                   save_calls, put_log, put_errors, served, rdVars>>

(***************************************************************************)
(* Ingestion trigger: process_upload.py                                    *)
(***************************************************************************)
VARIABLES
    KNOWLEDGE_BASES,    \* the published mapping (environment variable): domain -> knowledge base id
    data_sources,       \* the service: knowledge base id -> its data source ids
    Records,            \* event['Records']: the object keys, each split at '/'; <<>> for a
                        \* record without the s3.object.key entries
    up_pc,              \* "idle" | "loop" | "done"
    up_idx,             \* index of the record the loop is at
    up_status,          \* statusCode of the response, 0 before it
    service_outcomes,   \* per record handled: what the service did with the calls made for it
    start_calls,        \* the records for which start_ingestion_job was called, in order
    ingestion_jobs      \* the ingestion jobs started: [record, knowledgeBaseId, dataSourceId]

upVars == <<KNOWLEDGE_BASES, data_sources, Records, up_pc, up_idx, up_status,
            service_outcomes, start_calls, ingestion_jobs>>

\* records of one notification batch
MaxBatch == 2

Domains == {"hr", "payroll", "benefits", "helpdesk", "training"}

KbIdOf(d) ==
    CASE d = "hr" -> "KB_HR" [] d = "payroll" -> "KB_PAYROLL"
      [] d = "benefits" -> "KB_BENEFITS" [] d = "helpdesk" -> "KB_HELPDESK"
      [] d = "training" -> "KB_TRAINING"

\* object keys of the notifications, split at '/'
ObjectKeys ==
    {<<"hr", "policy.pdf">>, <<"HR", "policy.pdf">>, <<"policy.pdf">>,
     <<"payroll", "slip.pdf">>, <<"it_helpdesk", "faq.pdf">>,
     <<"it_help_desk", "faq.pdf">>, <<"finance", "plan.pdf">>, <<>>}

\* str.lower() on the folder names that occur
Lower(name) == IF name = "HR" THEN "hr" ELSE name

\* lines 37-50: the folder of a key, lowercased, 'it_helpdesk' read as 'helpdesk';
\* NONE for a key without a folder
FolderOfCaseSensitive(key) ==
    IF Len(key) < 2 THEN NONE
    ELSE IF key[1] = "it_helpdesk" THEN "helpdesk" ELSE key[1]
FolderOf(key) ==
    IF Len(key) < 2 THEN NONE
    ELSE IF Lower(key[1]) = "it_helpdesk" THEN "helpdesk" ELSE Lower(key[1])

\* knowledge_bases.get(folder)
KbOfFolder(folder) ==
    IF folder \in DOMAIN KNOWLEDGE_BASES THEN KNOWLEDGE_BASES[folder] ELSE NONE

\* the published mappings considered: all five domains, all but hr, none
PublishedMappings ==
    {[d \in D |-> KbIdOf(d)] : D \in {Domains, Domains \ {"hr"}, {}}}

\* the data sources considered: one per knowledge base; none for payroll's; two for hr's
DataSourceFamilies ==
    {[k \in {KbIdOf(d) : d \in Domains} |-> <<"DS1">>],
     [k \in {KbIdOf(d) : d \in Domains} |->
          IF k = "KB_PAYROLL" THEN <<>> ELSE IF k = "KB_HR" THEN <<"DS1", "DS2">> ELSE <<"DS1">>]}

RECURSIVE SeqsUpTo(_, _)
\* the sequences over S of length at most n
SeqsUpTo(S, n) ==
    IF n = 0 THEN {<<>>}
    ELSE LET shorter == SeqsUpTo(S, n - 1)
         IN  shorter \cup {Append(q, x) : q \in shorter, x \in S}

UpInit ==
    /\ KNOWLEDGE_BASES \in PublishedMappings
    /\ data_sources \in DataSourceFamilies
    /\ Records = <<>>
    /\ up_pc = "idle"
    /\ up_idx = 1
    /\ up_status = 0
    /\ service_outcomes = <<>>
    /\ start_calls = <<>>
    /\ ingestion_jobs = <<>>

\* the handler is invoked with a batch of notifications
S3Event(batch) ==
    /\ up_pc = "idle"
    /\ Records' = batch
    /\ up_pc' = "loop"
    /\ up_idx' = 1
    /\ UNCHANGED <<KNOWLEDGE_BASES, data_sources, up_status, service_outcomes,
                   start_calls, ingestion_jobs>>

\* what the loop does after a record: `continue`, also from the except branch
AfterRecordStop == up_pc' = "done" /\ up_status' = 200 /\ UNCHANGED up_idx
AfterRecord == up_idx' = up_idx + 1 /\ UNCHANGED <<up_pc, up_status>>

\* one pass of the loop over event['Records'] (lines 28-81); `outcome` is what the
\* service does: "ok", "list_raises" (list_data_sources raises), "start_raises"
\* (start_ingestion_job raises), "none" when the record leads to no call
ProcessRecord(outcome) ==
    /\ up_pc = "loop"
    /\ up_idx <= Len(Records)
    /\ LET key == Records[up_idx]
           folder == FolderOf(key)
           kb_id == KbOfFolder(folder)
           listed == key # <<>> /\ folder # NONE /\ kb_id # NONE
           startable == listed /\ outcome # "list_raises" /\ data_sources[kb_id] # <<>>
       IN  /\ outcome = "none" <=> ~listed
           /\ (outcome = "start_raises") => data_sources[kb_id] # <<>>
           /\ service_outcomes' = Append(service_outcomes, outcome)
           /\ start_calls' = IF startable THEN Append(start_calls, up_idx) ELSE start_calls
           /\ ingestion_jobs' =
                IF startable /\ outcome = "ok"
                THEN Append(ingestion_jobs,
                            [record |-> up_idx, knowledgeBaseId |-> kb_id,
                             dataSourceId |-> data_sources[kb_id][1]])
                ELSE ingestion_jobs
    /\ AfterRecord
    /\ UNCHANGED <<KNOWLEDGE_BASES, data_sources, Records>>

\* lines 83-86: the loop is over
UploadReturn ==
    /\ up_pc = "loop"
    /\ up_idx > Len(Records)
    /\ up_pc' = "done"
    /\ up_status' = 200
    /\ UNCHANGED <<KNOWLEDGE_BASES, data_sources, Records, up_idx, service_outcomes,
                   start_calls, ingestion_jobs>>

(***************************************************************************)
(* Collection and policy provisioning: create_oss.py                       *)
(***************************************************************************)
VARIABLES
    security_policies,  \* the service: the <<type, name>> of the security policies that exist
    access_policies,    \* the service: the names of the data access policies that exist
    collections,        \* the service: collection name -> [id, status]
    oss_pc,             \* "idle" | "validate" | "policies" | "collection" | "poll"
    oss_suffix,         \* UUID_SUFFIX of the run in progress
    oss_role,           \* what validate_bedrock_role returned in the run in progress
    oss_runs            \* the outcome of every run so far, in order

ossVars == <<security_policies, access_policies, collections, oss_pc, oss_suffix,
             oss_role, oss_runs>>

\* handler runs in one behaviour
MaxOssRuns == 2

Suffixes == {"aaaaa", "bbbbb"}

\* lines 277, 321-323: the names derived from the suffix
CollectionName(suffix) == <<"eva-collection", suffix>>
EncPolicyName(suffix) == <<"eva-encryption-policy", suffix>>
NetworkPolicyName(suffix) == <<"eva-network-policy", suffix>>
AccessPolicyName(suffix) == <<"eva-access-policy", suffix>>

\* lines 196-198, 211-213: ARN and host are derived from the collection id
CollectionArn(id) == <<"arn:aws:aoss", id>>
CollectionHost(id) == <<id, "aoss.amazonaws.com">>

OssInit ==
    /\ security_policies = {}
    /\ access_policies = {}
    /\ collections = <<>>
    /\ oss_pc = "idle"
    /\ oss_suffix = NONE
    /\ oss_role = NONE
    /\ oss_runs = <<>>

\* before the handler runs in an account where a collection of one of the names
\* exists already, in any status, without the policies of these names
OssExisting ==
    /\ security_policies = {}
    /\ access_policies = {}
    /\ collections \in {[n \in {CollectionName(suffix)} |-> [id |-> <<"col", 0>>, status |-> status]] :
                            suffix \in Suffixes, status \in {"CREATING", "ACTIVE", "FAILED"}}
    /\ oss_pc = "idle"
    /\ oss_suffix = NONE
    /\ oss_role = NONE
    /\ oss_runs = <<>>

\* the response of a run: Status "RAISED" stands for a handler that raised
OssResponse(status, reason, id) ==
    [suffix |-> oss_suffix, Status |-> status, Reason |-> reason,
     collection_id |-> id,
     collection_arn |-> IF id = NONE THEN NONE ELSE CollectionArn(id),
     collection_host |-> IF id = NONE THEN NONE ELSE CollectionHost(id),
     role_arn |-> oss_role]

\* the handler returns (or raises): the run is over
OssReturn(status, reason, id) ==
    /\ oss_runs' = Append(oss_runs, OssResponse(status, reason, id))
    /\ oss_pc' = "idle"

\* lines 231-262: a Delete request is answered at once
OssRequest(request_type, suffix) ==
    /\ oss_pc = "idle"
    /\ Len(oss_runs) < MaxOssRuns
    /\ IF request_type = "Delete"
       THEN /\ oss_runs' = Append(oss_runs,
                   [suffix |-> suffix, Status |-> "SUCCESS", Reason |-> "Delete",
                    collection_id |-> NONE, collection_arn |-> NONE,
                    collection_host |-> NONE, role_arn |-> NONE])
            /\ UNCHANGED <<oss_pc, oss_suffix, oss_role>>
       ELSE /\ oss_pc' = "validate"
            /\ oss_suffix' = suffix
            /\ oss_role' = NONE
            /\ UNCHANGED oss_runs
    /\ UNCHANGED <<security_policies, access_policies, collections>>

\* lines 268-269 with validate_bedrock_role (12-112): called outside the try of the
\* handler, so an exception of it leaves the handler; an ARN without "role/" gives None
ValidateRole(outcome) ==
    /\ oss_pc = "validate"
    /\ CASE outcome = "ok" ->
              oss_role' = "role_arn" /\ oss_pc' = "policies" /\ UNCHANGED oss_runs
         [] outcome = "invalid_arn" ->
              oss_role' = NONE /\ oss_pc' = "policies" /\ UNCHANGED oss_runs
         [] outcome = "raises" ->
              OssReturn("RAISED", "validate_bedrock_role", NONE) /\ UNCHANGED oss_role
    /\ UNCHANGED <<security_policies, access_policies, collections, oss_suffix>>

\* the service refuses to create a policy whose name is taken (ConflictException)
PolicyExists(kind, name) ==
    IF kind = "data" THEN name \in access_policies
    ELSE <<kind, name>> \in security_policies

\* lines 324-336: create_or_get_collection is reached when none of the three calls
\* of create_policies_for_collection raised
PoliciesCreatedAnyway(encRaises, netRaises, accRaises) == TRUE
PoliciesCreated(encRaises, netRaises, accRaises) == ~(encRaises \/ netRaises \/ accRaises)

\* create_policies_for_collection (114-187) inside the try of the handler (318-333):
\* the encryption, network and access policy are created one after the other, with
\* no look-up first; `failure` names the call at which the service fails for a
\* reason of its own.  The first call that raises ends the run with Status FAILED.
CreatePolicies(failure) ==
    /\ oss_pc = "policies"
    /\ LET enc == EncPolicyName(oss_suffix)
           net == NetworkPolicyName(oss_suffix)
           acc == AccessPolicyName(oss_suffix)
           encRaises == PolicyExists("encryption", enc) \/ failure = "encryption"
           netRaises == PolicyExists("network", net) \/ failure = "network"
           accRaises == PolicyExists("data", acc) \/ failure = "data"
           reasonOf(kind, name) ==
               IF PolicyExists(kind, name) THEN "ConflictException" ELSE "ServiceError"
       IN  /\ security_policies' =
                security_policies
                  \cup (IF encRaises THEN {} ELSE {<<"encryption", enc>>})
                  \cup (IF encRaises \/ netRaises THEN {} ELSE {<<"network", net>>})
           /\ access_policies' =
                access_policies
                  \cup (IF encRaises \/ netRaises \/ accRaises THEN {} ELSE {acc})
           /\ IF PoliciesCreated(encRaises, netRaises, accRaises)
              THEN oss_pc' = "collection" /\ UNCHANGED oss_runs
              ELSE IF encRaises THEN OssReturn("FAILED", reasonOf("encryption", enc), NONE)
              ELSE IF netRaises THEN OssReturn("FAILED", reasonOf("network", net), NONE)
              ELSE OssReturn("FAILED", reasonOf("data", acc), NONE)
    /\ UNCHANGED <<collections, oss_suffix, oss_role>>

\* the id the service gives to a new collection
NewCollectionId == <<"col", Len(oss_runs) + 1>>

\* create_or_get_collection, lines 189-214: an existing collection of the name is
\* returned as it is; otherwise the collection is created.  `outcome`: "ok",
\* "get_raises" (batch_get_collection raises other than ResourceNotFoundException),
\* "create_raises" (create_collection raises)
CreateOrGetCollection(outcome) ==
    /\ oss_pc = "collection"
    /\ LET name == CollectionName(oss_suffix)
       IN  IF outcome = "get_raises"
           THEN OssReturn("FAILED", "ServiceError", NONE) /\ UNCHANGED collections
           ELSE IF name \in DOMAIN collections
           THEN /\ outcome = "ok"
                /\ OssReturn("SUCCESS", NONE, collections[name].id)
                /\ UNCHANGED collections
           ELSE IF outcome = "create_raises"
           THEN OssReturn("FAILED", "ServiceError", NONE) /\ UNCHANGED collections
           ELSE /\ collections' =
                     [n \in DOMAIN collections \cup {name} |->
                        IF n = name THEN [id |-> NewCollectionId, status |-> "CREATING"]
                        ELSE collections[n]]
                /\ oss_pc' = "poll"
                /\ UNCHANGED oss_runs
    /\ UNCHANGED <<security_policies, access_policies, oss_suffix, oss_role>>

\* the service finishes the creation of a collection
CollectionSettles(name, status) ==
    /\ name \in DOMAIN collections
    /\ collections[name].status = "CREATING"
    /\ collections' = [collections EXCEPT ![name].status = status]
    /\ UNCHANGED <<security_policies, access_policies, oss_pc, oss_suffix, oss_role,
                   oss_runs>>

\* lines 216-228 and 343-354: the loop ends as soon as the status is not CREATING
PollCollection(raises) ==
    /\ oss_pc = "poll"
    /\ LET c == collections[CollectionName(oss_suffix)]
       IN  IF raises THEN OssReturn("FAILED", "ServiceError", NONE)
           ELSE c.status # "CREATING" /\ OssReturn("SUCCESS", NONE, c.id)
    /\ UNCHANGED <<security_policies, access_policies, collections, oss_suffix, oss_role>>

(***************************************************************************)
(* Knowledge-base provisioning: create_knowledge_bases.py                  *)
(***************************************************************************)
VARIABLES
    kb_service,         \* the service: the names of the knowledge bases that exist
    kb_pc,              \* "idle" | "loop" | "done"
    kb_configs,         \* the knowledge_bases property of the event, parsed
    kb_idx,             \* index of the config the loop is at
    created_kbs,        \* the list the loop builds
    kb_failed,          \* the folders whose pass of the loop raised
    kb_create_calls,    \* create_knowledge_base calls made for the last config handled
    kb_response,        \* the response of the handler
    kb_previous,        \* the configs and the mapping of the run before this one
    kb_made,            \* the folders whose create_knowledge_base returned in this run
    ds_made             \* the folders whose create_data_source returned in this run

kbVars == <<kb_service, kb_pc, kb_configs, kb_idx, created_kbs, kb_failed,
            kb_create_calls, kb_response, kb_previous, kb_made, ds_made>>

\* create_knowledge_base(..., max_retries=5)
kb_max_retries == 5

\* a folder is a path, kept as the sequence of its segments
Folders == <<<<"hr">>, <<"payroll">>, <<"benefits">>, <<"it_help_desk">>, <<"training">>>>

\* create_oss.py, lines 285-316: the configs handed over in the event
KbConfig(folder, suffix) ==
    [name |-> <<"eva", IF folder = <<"it_help_desk">> THEN "it_helpdesk" ELSE folder[1],
                "kb", suffix>>,
     folder |-> folder]
KbConfigs(suffix) == [k \in DOMAIN Folders |-> KbConfig(Folders[k], suffix)]

\* the id the service gives to the knowledge base of a name
KnowledgeBaseId(name) == <<"kb", name>>

\* lines 428-430: folder.split('/')[-1], 'it_help_desk' read as 'helpdesk'
KbType(folder) ==
    IF folder[Len(folder)] = "it_help_desk" THEN "helpdesk" ELSE folder[Len(folder)]

RECURSIVE KnowledgeBasesMapping(_, _)
\* lines 425-431: the loop over created_kbs, a later entry of a type replacing an
\* earlier one
KnowledgeBasesMapping(kbs, mapping) ==
    IF kbs = <<>> THEN mapping
    ELSE LET kb == Head(kbs)
             kb_type == KbType(kb.folder)
         IN  KnowledgeBasesMapping(
                 Tail(kbs),
                 [t \in DOMAIN mapping \cup {kb_type} |->
                     IF t = kb_type THEN kb.knowledgeBaseId ELSE mapping[t]])

NoKbResponse == [Status |-> NONE, KNOWLEDGE_BASES |-> <<>>, knowledgeBases |-> <<>>]

\* no run came before
NoKbRun == [kb_configs |-> <<>>, KNOWLEDGE_BASES |-> <<>>]

KbIdle ==
    /\ kb_service = {}
    /\ kb_pc = "idle"
    /\ kb_configs = <<>>
    /\ kb_idx = 1
    /\ created_kbs = <<>>
    /\ kb_failed = {}
    /\ kb_create_calls = 0
    /\ kb_response = NoKbResponse
    /\ kb_previous = NoKbRun
    /\ kb_made = {}
    /\ ds_made = {}

\* before the handler runs: no knowledge base exists, or that of hr is left from an
\* earlier deployment with the same suffix
KbInit ==
    /\ kb_service \in {{}, {KbConfig(<<"hr">>, "aaaaa").name}}
    /\ kb_pc = "idle"
    /\ kb_configs = <<>>
    /\ kb_idx = 1
    /\ created_kbs = <<>>
    /\ kb_failed = {}
    /\ kb_create_calls = 0
    /\ kb_response = NoKbResponse
    /\ kb_previous = NoKbRun
    /\ kb_made = {}
    /\ ds_made = {}

\* lines 319-365: a Delete request and an event without collection ARN, host or
\* configs are answered at once; `configs` is <<>> for a missing or unparsable
\* knowledge_bases property
KbRequest(request_type, has_collection, configs) ==
    /\ kb_pc = "idle"
    /\ kb_configs' = configs
    /\ IF request_type = "Delete"
       THEN kb_pc' = "done" /\ kb_response' = [NoKbResponse EXCEPT !.Status = "SUCCESS"]
       ELSE IF ~has_collection \/ configs = <<>>
       THEN kb_pc' = "done" /\ kb_response' = [NoKbResponse EXCEPT !.Status = "FAILED"]
       ELSE kb_pc' = "loop" /\ UNCHANGED kb_response
    /\ UNCHANGED <<kb_service, kb_idx, created_kbs, kb_failed, kb_create_calls,
                   kb_previous, kb_made, ds_made>>

\* what the loop does after a config whose pass raised: lines 420-422
KbAfterFailureStop == kb_idx' = Len(kb_configs) + 1
KbAfterFailure == kb_idx' = kb_idx + 1

\* lines 379-418: the entry is appended when create_knowledge_base and
\* create_data_source returned; start_ingestion_job returns for every outcome of
\* the job (its handler at lines 300-306), so the append at 410 follows it
EntryAppendedWhenStarted(kb, ds, job) == kb /\ ds /\ job
EntryAppended(kb, ds, job) == kb /\ ds

\* one pass of the loop over kb_configs, lines 371-422.  create_vector_index never
\* raises (it returns True after its retries).  create_knowledge_base is tried up to
\* kb_max_retries times: the service refuses a name that is taken, and otherwise
\* fails `kb_failures` times before it succeeds.  create_data_source raises unless
\* `ds_ok`.  start_ingestion_job never raises: it gives the job, or the "error" job.
ProcessKbConfig(kb_failures, ds_ok, job_ok) ==
    /\ kb_pc = "loop"
    /\ kb_idx <= Len(kb_configs)
    /\ LET kb_config == kb_configs[kb_idx]
           taken == kb_config.name \in kb_service
           kb_created == ~taken /\ kb_failures < kb_max_retries
           kb_id == KnowledgeBaseId(kb_config.name)
       IN  /\ kb_create_calls' =
                IF kb_created THEN kb_failures + 1 ELSE kb_max_retries
           /\ kb_service' = IF kb_created THEN kb_service \cup {kb_config.name}
                            ELSE kb_service
           /\ kb_made' = IF kb_created THEN kb_made \cup {kb_config.folder} ELSE kb_made
           /\ ds_made' = IF kb_created /\ ds_ok THEN ds_made \cup {kb_config.folder}
                          ELSE ds_made
           /\ IF EntryAppended(kb_created, ds_ok, job_ok)
              THEN /\ created_kbs' =
                        Append(created_kbs,
                               [name |-> kb_config.name, knowledgeBaseId |-> kb_id,
                                dataSourceId |-> <<"ds", kb_id>>,
                                ingestionJobId |-> IF job_ok THEN <<"job", kb_id>>
                                                   ELSE "error",
                                folder |-> kb_config.folder])
                   /\ kb_idx' = kb_idx + 1
                   /\ UNCHANGED kb_failed
              ELSE /\ kb_failed' = kb_failed \cup {kb_config.folder}
                   /\ KbAfterFailure
                   /\ UNCHANGED created_kbs
    /\ UNCHANGED <<kb_pc, kb_configs, kb_response, kb_previous>>

\* lines 424-444: the mapping is built from created_kbs and returned; the response
\* carries no Status
KbReturn ==
    /\ kb_pc = "loop"
    /\ kb_idx > Len(kb_configs)
    /\ kb_pc' = "done"
    /\ kb_response' = [Status |-> NONE,
                       KNOWLEDGE_BASES |-> KnowledgeBasesMapping(created_kbs, <<>>),
                       knowledgeBases |-> created_kbs]
    /\ UNCHANGED <<kb_service, kb_configs, kb_idx, created_kbs, kb_failed,
                   kb_create_calls, kb_previous, kb_made, ds_made>>

\* the custom resource is updated: the handler is invoked again (line 308) with
\* fresh locals (created_kbs = [] at line 368), while the knowledge bases the
\* first run created still exist in the service
KbRunAgain ==
    /\ kb_pc = "done"
    /\ kb_idx > Len(kb_configs)
    /\ kb_configs # <<>>
    /\ kb_previous = NoKbRun
    /\ kb_previous' = [kb_configs |-> kb_configs,
                       KNOWLEDGE_BASES |-> kb_response.KNOWLEDGE_BASES]
    /\ kb_pc' = "idle"
    /\ kb_configs' = <<>>
    /\ kb_idx' = 1
    /\ created_kbs' = <<>>
    /\ kb_failed' = {}
    /\ kb_create_calls' = 0
    /\ kb_response' = NoKbResponse
    /\ kb_made' = {}
    /\ ds_made' = {}
    /\ UNCHANGED kb_service

(***************************************************************************)
(* Agent provisioning: create_agents.py                                    *)
(***************************************************************************)
VARIABLES
    knowledge_bases,    \* the KNOWLEDGE_BASES mapping the handler parsed
    supervisor_exists,  \* the service: an agent of the supervisor's name exists
    ag_pc,              \* "idle" | "specialists" | "supervisor" | "done"
    ag_idx,             \* index of the agent config create_specialized_agents is at
    created_agents,     \* agent name -> [agent_id, agent_alias_id]
    attempted,          \* the agent names create_specialized_agents has handled, in order
    pipeline_ok,        \* the agent names for which every call of the pipeline returned
    last_pipeline,      \* the calls made for the last specialist handled
    sup_attempt,        \* number of the composition attempt in progress or last made
    sup_failed,         \* how many composition attempts have raised
    last_composition,   \* the calls made in the last composition attempt
    ag_response,        \* the response of the handler
    ag_request_type     \* RequestType of the event (NONE before the handler runs)

agVars == <<knowledge_bases, supervisor_exists, ag_pc, ag_idx, created_agents, attempted,
            pipeline_ok, last_pipeline, sup_attempt, sup_failed, last_composition,
            ag_response, ag_request_type>>

\* create_supervisor_agent: max_retries = 3
supervisor_max_retries == 3

\* create_agent_configs, lines 121-272: the agent names (without the suffix) in the
\* order of the list; only the search agent has an action group
agent_configs ==
    <<[agent_name |-> "eva_hr", action_group_name |-> NONE],
      [agent_name |-> "eva_payroll", action_group_name |-> NONE],
      [agent_name |-> "eva_benefits", action_group_name |-> NONE],
      [agent_name |-> "eva_it_helpdesk", action_group_name |-> NONE],
      [agent_name |-> "eva_training", action_group_name |-> NONE],
      [agent_name |-> "eva_search", action_group_name |-> "actions_web_search"]>>

AgentNames == {agent_configs[k].agent_name : k \in DOMAIN agent_configs}

\* create_supervisor_config, line 278
SupervisorName == "eva_supervisor"

\* get_agent_type, lines 725-739, on the configured names
get_agent_type(agent_name) ==
    CASE agent_name = "eva_hr" -> "hr"
      [] agent_name = "eva_payroll" -> "payroll"
      [] agent_name = "eva_benefits" -> "benefits"
      [] agent_name = "eva_it_helpdesk" -> "helpdesk"
      [] agent_name = "eva_training" -> "training"
      [] agent_name = "eva_search" -> "search"
      [] OTHER -> NONE

\* the ids the service gives
AgentId(agent_name, generation) == <<"agent", agent_name, generation>>
AgentAliasId(agent_id) == <<"alias", agent_id>>

\* lines 385-419: the calls of the pipeline of one specialist, in order; the action
\* group and the knowledge base only for a config that has them
Pipeline(agent_config) ==
    <<"create_agent", "wait_for_agent_status">>
      \o (IF agent_config.action_group_name # NONE
          THEN <<"create_agent_action_group_with_retry">> ELSE <<>>)
      \o (IF get_agent_type(agent_config.agent_name) \in DOMAIN knowledge_bases
          THEN <<"associate_knowledge_base">> ELSE <<>>)
      \o <<"prepare_agent", "wait_for_agent_prepared", "create_agent_alias">>

\* lines 449-482: the calls of one composition attempt, in order
Composition ==
    <<"check_and_delete_existing_agent", "create_agent", "wait_for_agent_status",
      "add_collaborators_to_supervisor", "prepare_agent", "wait_for_agent_prepared",
      "create_agent_alias">>

\* the calls made when call number `failure` raises (0: none raises)
CallsMade(calls, failure) == IF failure = 0 THEN calls ELSE SubSeq(calls, 1, failure)

NoCalls == [agent_name |-> NONE, calls |-> <<>>, raised |-> FALSE]
NoComposition == [calls |-> <<>>, raised |-> FALSE, collaborator_count |-> 0,
                  agent_id |-> NONE, agent_alias_id |-> NONE]

\* lines 31-39: the default response
DefaultResponse ==
    [Status |-> NONE, Reason |-> NONE, supervisorAgentId |-> "NOT_CREATED",
     supervisorAgentAliasId |-> "NOT_CREATED", KNOWLEDGE_BASES_JSON |-> <<>>,
     created_agents |-> {}]

\* lines 105-109: the response is updated with the values of the run
SuccessKeepsDefault(response, agent_id, agent_alias_id, kbs, agents) == response
SuccessResponse(response, agent_id, agent_alias_id, kbs, agents) ==
    [response EXCEPT !.supervisorAgentId = agent_id,
                     !.supervisorAgentAliasId = agent_alias_id,
                     !.KNOWLEDGE_BASES_JSON = kbs,
                     !.created_agents = agents]

AgIdle ==
    /\ knowledge_bases = <<>>
    /\ supervisor_exists = FALSE
    /\ ag_pc = "idle"
    /\ ag_idx = 1
    /\ created_agents = <<>>
    /\ attempted = <<>>
    /\ pipeline_ok = {}
    /\ last_pipeline = NoCalls
    /\ sup_attempt = 0
    /\ sup_failed = 0
    /\ last_composition = NoComposition
    /\ ag_response = DefaultResponse
    /\ ag_request_type = NONE

\* before the handler runs: the mapping is one of the published ones, and a
\* supervisor of the name may be left from an earlier deployment
AgInit ==
    /\ knowledge_bases \in PublishedMappings
    /\ supervisor_exists \in BOOLEAN
    /\ ag_pc = "idle"
    /\ ag_idx = 1
    /\ created_agents = <<>>
    /\ attempted = <<>>
    /\ pipeline_ok = {}
    /\ last_pipeline = NoCalls
    /\ sup_attempt = 0
    /\ sup_failed = 0
    /\ last_composition = NoComposition
    /\ ag_response = DefaultResponse
    /\ ag_request_type = NONE

\* handler, lines 31-57: a Delete request gets the default response; without the
\* role ARN the handler fails at once
AgRequest(request_type, has_role) ==
    /\ ag_pc = "idle"
    /\ ag_request_type' = request_type
    /\ IF request_type = "Delete"
       THEN ag_pc' = "done" /\ UNCHANGED ag_response
       ELSE IF ~has_role
       THEN /\ ag_pc' = "done"
            /\ ag_response' = [DefaultResponse EXCEPT !.Status = "FAILED",
                                                      !.Reason = "Bedrock Role ARN is required"]
       ELSE ag_pc' = "specialists" /\ UNCHANGED ag_response
    /\ UNCHANGED <<knowledge_bases, supervisor_exists, ag_idx, created_agents, attempted,
                   pipeline_ok, last_pipeline, sup_attempt, sup_failed, last_composition>>

\* line 421 is reached when no call of the pipeline raised
RegisteredAfterCreate(failure) == failure # 1
Registered(failure) == failure = 0

\* one pass of the loop of create_specialized_agents, lines 374-428: the calls of
\* the pipeline are made in order until call number `failure` raises (0: none); the
\* except branch logs and the loop goes on
SpecialistAgent(failure) ==
    /\ ag_pc = "specialists"
    /\ ag_idx <= Len(agent_configs)
    /\ LET agent_config == agent_configs[ag_idx]
           agent_name == agent_config.agent_name
           calls == Pipeline(agent_config)
           agent_id == AgentId(agent_name, 1)
       IN  /\ failure \in 0..Len(calls)
           /\ last_pipeline' = [agent_name |-> agent_name,
                                calls |-> CallsMade(calls, failure),
                                raised |-> failure # 0]
           /\ pipeline_ok' = IF failure = 0 THEN pipeline_ok \cup {agent_name}
                             ELSE pipeline_ok
           /\ attempted' = Append(attempted, agent_name)
           /\ created_agents' =
                IF Registered(failure)
                THEN [n \in DOMAIN created_agents \cup {agent_name} |->
                        IF n = agent_name
                        THEN [agent_id |-> agent_id, agent_alias_id |-> AgentAliasId(agent_id)]
                        ELSE created_agents[n]]
                ELSE created_agents
    /\ ag_idx' = ag_idx + 1
    /\ ag_pc' = IF ag_idx = Len(agent_configs) THEN "supervisor" ELSE ag_pc
    /\ sup_attempt' = IF ag_idx = Len(agent_configs) THEN 1 ELSE sup_attempt
    /\ UNCHANGED <<knowledge_bases, supervisor_exists, sup_failed, last_composition,
                   ag_response, ag_request_type>>

\* add_collaborators_to_supervisor, lines 826-828
NoCollaboratorsNever(collaborator_count) == FALSE
NoCollaborators(collaborator_count) == collaborator_count = 0

\* lines 490-497: another attempt is made after a failed one
RetriesAlways(n) == TRUE
Retries(n) == n < supervisor_max_retries

\* one composition attempt of create_supervisor_agent, lines 444-497, and, when it
\* is the last one, the rest of the handler, lines 94-119.  The calls are made in
\* order until call number `failure` raises (0: the service lets all of them
\* through); `associated` is the number of created agents whose descriptor was
\* found and whose associate_agent_collaborator call returned.
SupervisorAttempt(failure, associated) ==
    /\ ag_pc = "supervisor"
    /\ associated \in 0..Cardinality(DOMAIN created_agents)
    /\ failure \in 0..Len(Composition)
    /\ (failure \in 1..3) => associated = 0
    /\ LET reached == failure = 0 \/ failure >= 4
           collaborator_count == IF reached THEN associated ELSE 0
           stops == IF reached /\ failure # 4 /\ NoCollaborators(collaborator_count)
                    THEN 4 ELSE failure
           calls == CallsMade(Composition, stops)
           agent_id == AgentId(SupervisorName, sup_attempt)
           completes == stops = 0
       IN  /\ last_composition' =
                [calls |-> calls, raised |-> ~completes,
                 collaborator_count |-> collaborator_count,
                 agent_id |-> IF Len(calls) >= 2 /\ stops # 2 THEN agent_id ELSE NONE,
                 agent_alias_id |-> IF completes THEN AgentAliasId(agent_id) ELSE NONE]
           /\ supervisor_exists' =
                IF Len(calls) >= 2 /\ stops # 2 THEN TRUE
                ELSE IF stops = 1 THEN supervisor_exists
                ELSE FALSE
           /\ IF completes
              THEN /\ ag_pc' = "done"
                   /\ ag_response' =
                        SuccessResponse(DefaultResponse, agent_id, AgentAliasId(agent_id),
                                        knowledge_bases,
                                        DOMAIN created_agents \cup {SupervisorName})
                   /\ UNCHANGED <<sup_attempt, sup_failed>>
              ELSE /\ sup_failed' = sup_failed + 1
                   /\ IF Retries(sup_attempt)
                      THEN /\ sup_attempt' = sup_attempt + 1
                           /\ UNCHANGED <<ag_pc, ag_response>>
                      ELSE /\ ag_pc' = "done"
                           /\ ag_response' =
                                [DefaultResponse EXCEPT
                                   !.Status = "FAILED",
                                   !.Reason = "create_supervisor_agent"]
                           /\ UNCHANGED sup_attempt
    /\ UNCHANGED <<knowledge_bases, ag_idx, created_agents, attempted, pipeline_ok,
                   last_pipeline, ag_request_type>>

(***************************************************************************)
(* Replacing the supervisor: check_and_delete_existing_agent and the       *)
(* create_agent that follows it, step by step, inside the retry loop of    *)
(* create_supervisor_agent (create_agents.py).                             *)
(***************************************************************************)
VARIABLES
    sv_status,          \* the service: "absent" | "present" | "deleting", for the
                        \* agent of the supervisor's name
    sv_generation,      \* the service: the id of the latest agent of that name (0: none yet)
    cd_pc,              \* "idle" | "list" | "delete" | "sleep" | "get" | "create"
                        \* | "rest" | "done" | "failed"
    cd_attempt,         \* number of the composition attempt
    cd_agent_id,        \* agent_id of check_and_delete_existing_agent (0: None)
    cd_deleted,         \* the id this attempt passed to delete_agent (0: none)
    cd_not_found,       \* the id for which get_agent raised ResourceNotFoundException
                        \* in this attempt (0: none)
    sv_others,          \* the service: the names of the other agents of the account
    deleted_agents,     \* the service: the names of the agents delete_agent removed
    cd_summaries        \* agentSummaries of list_agents_response in this attempt

cdVars == <<sv_status, sv_generation, cd_pc, cd_attempt, cd_agent_id, cd_deleted,
            cd_not_found, sv_others, deleted_agents, cd_summaries>>

\* the agents of the account besides the supervisor of this deployment: a
\* specialist of this deployment, and the supervisor of a deployment with another
\* suffix (create_agents.py, lines 126 and 278)
OtherAgents == {"eva_hr", "eva_supervisor_bbbbb"}

\* the ids the service gave them; those of the supervisor are 1, 2, ...
OtherAgentId(agent_name) == IF agent_name = "eva_hr" THEN 101 ELSE 102

CdIdle ==
    /\ sv_status = "absent"
    /\ sv_generation = 0
    /\ cd_pc = "idle"
    /\ cd_attempt = 0
    /\ cd_agent_id = 0
    /\ cd_deleted = 0
    /\ cd_not_found = 0
    /\ sv_others = OtherAgents
    /\ deleted_agents = {}
    /\ cd_summaries = <<>>

\* before create_supervisor_agent runs: no agent of the name, or one left by an
\* earlier deployment, which may be in deletion
CdInit ==
    /\ sv_status \in {"absent", "present", "deleting"}
    /\ sv_generation = IF sv_status = "absent" THEN 0 ELSE 1
    /\ cd_pc = "idle"
    /\ cd_attempt = 0
    /\ cd_agent_id = 0
    /\ cd_deleted = 0
    /\ cd_not_found = 0
    /\ sv_others = OtherAgents
    /\ deleted_agents = {}
    /\ cd_summaries = <<>>

\* lines 444-446: the first pass of the retry loop begins
CdBegin ==
    /\ cd_pc = "idle"
    /\ cd_pc' = "list"
    /\ cd_attempt' = 1
    /\ UNCHANGED <<sv_status, sv_generation, cd_agent_id, cd_deleted, cd_not_found,
                   sv_others, deleted_agents, cd_summaries>>

\* lines 490-497: a call of the attempt raised; the next pass starts with fresh
\* locals, and the last pass re-raises
CdAttemptFails ==
    IF cd_attempt < supervisor_max_retries
    THEN /\ cd_attempt' = cd_attempt + 1
         /\ cd_pc' = "list"
         /\ cd_agent_id' = 0
         /\ cd_deleted' = 0
         /\ cd_not_found' = 0
         /\ cd_summaries' = <<>>
    ELSE /\ cd_pc' = "failed"
         /\ UNCHANGED <<cd_attempt, cd_agent_id, cd_deleted, cd_not_found, cd_summaries>>

\* the agents of the service as list_agents reports them: one in deletion is
\* still listed
AgentSummaries ==
    <<[agentName |-> "eva_hr", agentId |-> OtherAgentId("eva_hr")],
      [agentName |-> "eva_supervisor_bbbbb", agentId |-> OtherAgentId("eva_supervisor_bbbbb")],
      [agentName |-> SupervisorName, agentId |-> sv_generation]>>

Existing(agent_name) ==
    IF agent_name = SupervisorName THEN sv_status # "absent" ELSE agent_name \in sv_others

\* line 506: what list_agents(maxResults=100) may return: the summaries of some of
\* the agents that exist
Listings ==
    {SelectSeq(AgentSummaries,
               LAMBDA summary : Existing(summary.agentName) /\ summary.agentName \in shown) :
        shown \in SUBSET (OtherAgents \cup {SupervisorName})}

\* line 510: existing_agent['agentName'] == agent_name
NameMatchesAny(existing_name, agent_name) == TRUE
NameMatches(existing_name, agent_name) == existing_name = agent_name

\* lines 507-513: the id of the first summary of the name (0: None)
FoundAgentId(summaries, agent_name) ==
    LET hits == {k \in DOMAIN summaries : NameMatches(summaries[k].agentName, agent_name)}
    IN  IF hits = {} THEN 0
        ELSE summaries[CHOOSE k \in hits : \A j \in hits : k <= j].agentId

\* lines 506-513: list_agents(maxResults=100) and the search for the name
ListAgents(raises, summaries) ==
    /\ cd_pc = "list"
    /\ IF raises
       THEN CdAttemptFails
       ELSE /\ cd_summaries' = summaries
            /\ cd_agent_id' = FoundAgentId(summaries, SupervisorName)
            /\ cd_pc' = IF cd_agent_id' # 0 THEN "delete" ELSE "create"
            /\ UNCHANGED <<cd_attempt, cd_deleted, cd_not_found>>
    /\ UNCHANGED <<sv_status, sv_generation, sv_others, deleted_agents>>

\* the agent of the service that has the id (NONE: there is none)
AgentOfId(agent_id) ==
    IF sv_status # "absent" /\ agent_id = sv_generation THEN SupervisorName
    ELSE IF \E name \in sv_others : OtherAgentId(name) = agent_id
    THEN CHOOSE name \in sv_others : OtherAgentId(name) = agent_id
    ELSE NONE

\* lines 515-520: delete_agent on the id found; the service refuses an agent that
\* is gone by now
DeleteAgent(raises) ==
    /\ cd_pc = "delete"
    /\ LET target == AgentOfId(cd_agent_id)
       IN  IF raises \/ target = NONE
           THEN CdAttemptFails /\ UNCHANGED <<sv_status, sv_others, deleted_agents>>
           ELSE /\ sv_status' = IF target = SupervisorName THEN "deleting" ELSE sv_status
                /\ sv_others' = sv_others \ {target}
                /\ deleted_agents' = deleted_agents \cup {target}
                /\ cd_deleted' = cd_agent_id
                /\ cd_pc' = "sleep"
                /\ UNCHANGED <<cd_attempt, cd_agent_id, cd_not_found, cd_summaries>>
    /\ UNCHANGED sv_generation

\* line 526: time.sleep(CHECK_INTERVAL)
SleepBeforeGetAgent ==
    /\ cd_pc = "sleep"
    /\ cd_pc' = "get"
    /\ UNCHANGED <<sv_status, sv_generation, cd_attempt, cd_agent_id, cd_deleted,
                   cd_not_found, sv_others, deleted_agents, cd_summaries>>

\* lines 529-531: the loop is left on ResourceNotFoundException
PollEndsAtOnce(not_found) == TRUE
PollEnds(not_found) == not_found

\* lines 527-531: get_agent on the deleted id: it returns while the agent is there
\* (the loop goes on), raises ResourceNotFoundException once it is gone (the loop
\* ends), or raises another error, which leaves the function
GetAgent(raises) ==
    /\ cd_pc = "get"
    /\ IF raises
       THEN CdAttemptFails
       ELSE LET not_found == sv_status = "absent" \/ sv_generation # cd_agent_id
            IN  /\ cd_not_found' = IF not_found THEN cd_agent_id ELSE cd_not_found
                /\ cd_pc' = IF PollEnds(not_found) THEN "create" ELSE "sleep"
                /\ UNCHANGED <<cd_attempt, cd_agent_id, cd_deleted, cd_summaries>>
    /\ UNCHANGED <<sv_status, sv_generation, sv_others, deleted_agents>>

\* the service completes a deletion
AgentDeleted ==
    /\ sv_status = "deleting"
    /\ sv_status' = "absent"
    /\ UNCHANGED <<sv_generation, cd_pc, cd_attempt, cd_agent_id, cd_deleted,
                   cd_not_found, sv_others, deleted_agents, cd_summaries>>

\* lines 452-458: create_agent for the supervisor; the service refuses a name that
\* is in use
CreateSupervisor(raises) ==
    /\ cd_pc = "create"
    /\ IF raises \/ sv_status # "absent"
       THEN CdAttemptFails /\ UNCHANGED <<sv_status, sv_generation>>
       ELSE /\ sv_status' = "present"
            /\ sv_generation' = sv_generation + 1
            /\ cd_pc' = "rest"
            /\ UNCHANGED <<cd_attempt, cd_agent_id, cd_deleted, cd_not_found,
                           cd_summaries>>
    /\ UNCHANGED <<sv_others, deleted_agents>>

\* lines 460-488: the calls after create_agent; one of them raises, or the
\* supervisor is returned
RestOfAttempt(raises) ==
    /\ cd_pc = "rest"
    /\ IF raises
       THEN CdAttemptFails
       ELSE /\ cd_pc' = "done"
            /\ UNCHANGED <<cd_attempt, cd_agent_id, cd_deleted, cd_not_found,
                           cd_summaries>>
    /\ UNCHANGED <<sv_status, sv_generation, sv_others, deleted_agents>>

(***************************************************************************)
(* create_specialized_agents run again on the agents of an earlier run     *)
(* (create_agents.py, lines 365-430).                                      *)
(***************************************************************************)
VARIABLES
    existing_agents,    \* the service: the names of the specialist agents that exist
    run,                \* 1: the first run of create_specialized_agents, 2: the second
    run_idx,            \* index of the agent config the loop is at
    run_created,        \* the keys of the created_agents the run builds
    first_created       \* the keys of the created_agents the first run returned

saVars == <<existing_agents, run, run_idx, run_created, first_created>>

SaInit ==
    /\ existing_agents = {}
    /\ run = 1
    /\ run_idx = 1
    /\ run_created = {}
    /\ first_created = {}

\* lines 535-562: create_agent has returned when a later call is the one that raises
AgentExistsAfter(failure) == failure # 1

\* one pass of the loop, lines 374-428, with the service's memory of agent names:
\* create_agent is called for the name without a lookup, and the service refuses a
\* name that is in use; the calls are made in order until call number `failure`
\* raises (0: none)
CreateSpecializedAgent(failure) ==
    /\ run_idx <= Len(agent_configs)
    /\ LET agent_name == agent_configs[run_idx].agent_name
       IN  /\ failure \in 0..Len(Pipeline(agent_configs[run_idx]))
           /\ agent_name \in existing_agents => failure = 1
           /\ existing_agents' = IF AgentExistsAfter(failure)
                                 THEN existing_agents \cup {agent_name}
                                 ELSE existing_agents
           /\ run_created' = IF Registered(failure) THEN run_created \cup {agent_name}
                             ELSE run_created
    /\ run_idx' = run_idx + 1
    /\ UNCHANGED <<run, first_created>>

\* the custom resource is updated with the same suffix: create_specialized_agents
\* runs again (handler, line 62) with created_agents = {} (line 372), while the
\* agents of the first run exist
RunAgain ==
    /\ run = 1
    /\ run_idx > Len(agent_configs)
    /\ first_created' = run_created
    /\ run' = 2
    /\ run_idx' = 1
    /\ run_created' = {}
    /\ UNCHANGED existing_agents

(***************************************************************************)
(* The pipeline of every agent, call by call: the loop of                  *)
(* create_specialized_agents (create_agents.py, lines 374-428) over the    *)
(* six configs, followed by the attempts of create_supervisor_agent        *)
(* (lines 444-497).  What get_agent reports, and whether a call raises, is *)
(* the service's choice.                                                   *)
(***************************************************************************)
VARIABLES
    sp_knowledge_bases, \* the KNOWLEDGE_BASES mapping handed to create_specialized_agents
    sp_idx,             \* index of the agent config; Len(agent_configs) + 1: the supervisor
    sp_pc,              \* the call the pipeline is at, or "raised" | "registered" | "done" | "failed"
    sp_attempt,         \* number of the composition attempt of the supervisor (0: not begun)
    sp_polls,           \* get_agent calls of the wait_for_agent_status in progress or that raised
    sp_status,          \* the status the last of them returned (NONE: none did)
    sp_ag_calls,        \* create_agent_action_group calls made for this agent
    sp_ag_attached,     \* one of them returned
    sp_sleeps,          \* the delays create_agent_action_group_with_retry slept
    sp_retried,         \* the errors after which it made another call
    sp_kb_attached,     \* the knowledge base id associated with this agent
    sp_prepare_called,  \* prepare_agent was called on this agent
    sp_prepared_status, \* the status the last get_agent of wait_for_agent_prepared returned
    sp_alias,           \* create_agent_alias returned for this agent
    sp_created,         \* the keys of created_agents
    sp_raised           \* the agents whose pipeline ended in the except branch (line 426)

spLocals == <<sp_polls, sp_status, sp_ag_calls, sp_ag_attached, sp_sleeps, sp_retried,
              sp_kb_attached, sp_prepare_called, sp_prepared_status, sp_alias>>
spVars == <<sp_knowledge_bases, sp_idx, sp_pc, sp_attempt, spLocals, sp_created, sp_raised>>

\* create_agent_action_group_with_retry: max_retries = 5, base_delay = 5.0
ag_max_retries == 5
ag_base_delay == 5

\* max_attempts of wait_for_agent_status: 60 at line 390, the default 30 at line 461
WaitMaxAttempts(idx) == IF idx <= Len(agent_configs) THEN 60 ELSE 30

SpSupervisor == sp_idx > Len(agent_configs)
SpAgentName == IF SpSupervisor THEN SupervisorName ELSE agent_configs[sp_idx].agent_name

\* the locals of a pipeline that begins
SpFresh ==
    /\ sp_polls = 0 /\ sp_status = NONE
    /\ sp_ag_calls = 0 /\ sp_ag_attached = FALSE /\ sp_sleeps = <<>> /\ sp_retried = {}
    /\ sp_kb_attached = NONE
    /\ sp_prepare_called = FALSE /\ sp_prepared_status = NONE /\ sp_alias = FALSE

\* ... and the step that begins one
SpBegin ==
    /\ sp_polls' = 0 /\ sp_status' = NONE
    /\ sp_ag_calls' = 0 /\ sp_ag_attached' = FALSE /\ sp_sleeps' = <<>> /\ sp_retried' = {}
    /\ sp_kb_attached' = NONE
    /\ sp_prepare_called' = FALSE /\ sp_prepared_status' = NONE /\ sp_alias' = FALSE

SpIdle ==
    /\ sp_knowledge_bases = <<>>
    /\ sp_idx = 1
    /\ sp_pc = "create_agent"
    /\ sp_attempt = 0
    /\ SpFresh
    /\ sp_created = {}
    /\ sp_raised = {}

SpInit ==
    /\ sp_knowledge_bases \in PublishedMappings
    /\ sp_idx = 1
    /\ sp_pc = "create_agent"
    /\ sp_attempt = 0
    /\ SpFresh
    /\ sp_created = {}
    /\ sp_raised = {}

\* lines 379-381 and 404: the knowledge base of the agent's own type, when the
\* mapping has one
HasKnowledgeBaseNever(agent_name) == FALSE
HasKnowledgeBase(agent_name) == get_agent_type(agent_name) \in DOMAIN sp_knowledge_bases

\* the call that follows wait_for_agent_status (lines 393, 404, 414, 464) ...
AfterWait ==
    IF SpSupervisor THEN "add_collaborators_to_supervisor"
    ELSE IF agent_configs[sp_idx].action_group_name # NONE THEN "create_agent_action_group"
    ELSE IF HasKnowledgeBase(SpAgentName) THEN "associate_knowledge_base"
    ELSE "prepare_agent"

\* ... and the one that follows the action group (lines 404, 414)
AfterActionGroup ==
    IF HasKnowledgeBase(SpAgentName) THEN "associate_knowledge_base" ELSE "prepare_agent"

\* a call that only returns or raises: create_agent (385, 452),
\* check_and_delete_existing_agent (449), add_collaborators_to_supervisor (464),
\* associate_knowledge_base (405), prepare_agent (414, 472), create_agent_alias
\* (419, 477); the alias is followed by the entry in created_agents (421)
SpCall(call, raises) ==
    /\ sp_pc = call
    /\ call \in {"check_and_delete_existing_agent", "create_agent",
                 "add_collaborators_to_supervisor", "associate_knowledge_base",
                 "prepare_agent", "create_agent_alias"}
    /\ sp_prepare_called' = (sp_prepare_called \/ call = "prepare_agent")
    /\ IF raises
       THEN /\ sp_pc' = "raised"
            /\ UNCHANGED <<sp_kb_attached, sp_alias, sp_created>>
       ELSE /\ sp_pc' = CASE call = "check_and_delete_existing_agent" -> "create_agent"
                          [] call = "create_agent" -> "wait_for_agent_status"
                          [] call = "add_collaborators_to_supervisor" -> "prepare_agent"
                          [] call = "associate_knowledge_base" -> "prepare_agent"
                          [] call = "prepare_agent" -> "wait_for_agent_prepared"
                          [] call = "create_agent_alias" -> "registered"
            /\ sp_kb_attached' =
                 IF call = "associate_knowledge_base"
                 THEN sp_knowledge_bases[get_agent_type(SpAgentName)] ELSE sp_kb_attached
            /\ sp_alias' = (sp_alias \/ call = "create_agent_alias")
            /\ sp_created' = IF call = "create_agent_alias" /\ ~SpSupervisor
                             THEN sp_created \cup {SpAgentName} ELSE sp_created
    /\ UNCHANGED <<sp_knowledge_bases, sp_raised, sp_idx, sp_attempt, sp_polls, sp_status,
                   sp_ag_calls, sp_ag_attached, sp_sleeps, sp_retried, sp_prepared_status>>

\* wait_for_agent_status returns on these statuses (lines 390, 461)
TargetStatusesCreating == {"PREPARED", "NOT_PREPARED", "CREATING"}
TargetStatuses == {"PREPARED", "NOT_PREPARED"}

\* one pass of the loop of wait_for_agent_status, lines 684-705: get_agent returns
\* a status, or raises ResourceNotFoundException or another error
WaitForAgentStatus(outcome) ==
    /\ sp_pc = "wait_for_agent_status"
    /\ sp_polls < WaitMaxAttempts(sp_idx)
    /\ sp_status' = IF outcome \in {"ResourceNotFoundException", "error"}
                     THEN sp_status ELSE outcome
    /\ IF outcome \in TargetStatuses
       THEN sp_pc' = AfterWait /\ sp_polls' = 0
       ELSE /\ sp_polls' = sp_polls + 1
            /\ sp_pc' = IF \/ outcome \in {"FAILED", "error"}
                           \/ sp_polls + 1 = WaitMaxAttempts(sp_idx)
                        THEN "raised" ELSE sp_pc
    /\ UNCHANGED <<sp_knowledge_bases, sp_raised, sp_idx, sp_attempt, sp_ag_calls, sp_ag_attached,
                   sp_sleeps, sp_retried, sp_kb_attached, sp_prepare_called, sp_prepared_status,
                   sp_alias, sp_created>>

\* line 354: the errors after which the call is made again
Retryable(error) == error \in {"Agent is in", "ValidationException"}

\* line 353: delay = base_delay * (2 ** attempt)
ActionGroupDelayLinear(k) == ag_base_delay * (k + 1)
ActionGroupDelay(k) == ag_base_delay * Pow2(k)

\* one pass of the loop of create_agent_action_group_with_retry, lines 315-363:
\* the call returns, or raises the not-ready error ("Agent is in ... state"),
\* another ValidationException, or another error
CreateActionGroup(outcome) ==
    /\ sp_pc = "create_agent_action_group"
    /\ sp_ag_calls < ag_max_retries
    /\ sp_ag_calls' = sp_ag_calls + 1
    /\ IF outcome = "ok"
       THEN /\ sp_ag_attached' = TRUE
            /\ sp_pc' = AfterActionGroup
            /\ UNCHANGED <<sp_sleeps, sp_retried>>
       ELSE /\ UNCHANGED sp_ag_attached
            /\ IF Retryable(outcome) /\ sp_ag_calls < ag_max_retries - 1
               THEN /\ sp_sleeps' = Append(sp_sleeps, ActionGroupDelay(sp_ag_calls))
                    /\ sp_retried' = sp_retried \cup {outcome}
                    /\ UNCHANGED sp_pc
               ELSE /\ sp_pc' = "raised"
                    /\ UNCHANGED <<sp_sleeps, sp_retried>>
    /\ UNCHANGED <<sp_knowledge_bases, sp_raised, sp_idx, sp_attempt, sp_polls, sp_status,
                   sp_kb_attached, sp_prepare_called, sp_prepared_status, sp_alias, sp_created>>

\* line 716: the status on which wait_for_agent_prepared returns
PreparedEndsEarly(status) == status \in {"PREPARED", "PREPARING"}
PreparedEnds(status) == status = "PREPARED"

\* one pass of the loop of wait_for_agent_prepared, lines 711-722
WaitForAgentPrepared(outcome) ==
    /\ sp_pc = "wait_for_agent_prepared"
    /\ sp_prepared_status' = IF outcome = "error" THEN sp_prepared_status ELSE outcome
    /\ sp_pc' = CASE PreparedEnds(outcome) -> "create_agent_alias"
                  [] outcome \in {"FAILED", "error"} -> "raised"
                  [] OTHER -> sp_pc
    /\ UNCHANGED <<sp_knowledge_bases, sp_raised, sp_idx, sp_attempt, sp_polls, sp_status,
                   sp_ag_calls, sp_ag_attached, sp_sleeps, sp_retried, sp_kb_attached,
                   sp_prepare_called, sp_alias, sp_created>>

\* the pipeline of an agent is over: the loop of create_specialized_agents goes on
\* after a registration and after the except branch (426-428); the supervisor is
\* returned, or tried again up to supervisor_max_retries times (490-497)
NextPipeline ==
    /\ sp_pc \in {"raised", "registered"}
    /\ IF ~SpSupervisor
       THEN /\ sp_idx' = sp_idx + 1
            /\ sp_pc' = IF sp_idx < Len(agent_configs) THEN "create_agent"
                        ELSE "check_and_delete_existing_agent"
            /\ sp_attempt' = IF sp_idx < Len(agent_configs) THEN 0 ELSE 1
            /\ SpBegin
       ELSE IF sp_pc = "registered"
       THEN sp_pc' = "done" /\ UNCHANGED <<sp_idx, sp_attempt, spLocals>>
       ELSE IF sp_attempt < supervisor_max_retries
       THEN /\ sp_attempt' = sp_attempt + 1
            /\ sp_pc' = "check_and_delete_existing_agent"
            /\ SpBegin
            /\ UNCHANGED sp_idx
       ELSE sp_pc' = "failed" /\ UNCHANGED <<sp_idx, sp_attempt, spLocals>>
    /\ sp_raised' = IF ~SpSupervisor /\ sp_pc = "raised"
                     THEN sp_raised \cup {SpAgentName} ELSE sp_raised
    /\ UNCHANGED <<sp_knowledge_bases, sp_created>>

(***************************************************************************)
(* start_ingestion_job (create_knowledge_bases.py, lines 234-306), call by *)
(* call: the wait for the knowledge base, the start of the job and the     *)
(* polls of the job.  What the service answers is the service's choice.    *)
(***************************************************************************)
VARIABLES
    ij_pc,         \* "get_knowledge_base" | "start_ingestion_job" | "get_ingestion_job" | "return" | "returned"
    ij_kb_checks,  \* get_knowledge_base calls made
    ij_kb_seen,    \* the statuses they returned
    ij_started,    \* start_ingestion_job was called
    ij_job,        \* the local `job`
    ij_polled,     \* the statuses get_ingestion_job returned, in order
    ij_result      \* what the function returned, or that it raised

ijVars == <<ij_pc, ij_kb_checks, ij_kb_seen, ij_started, ij_job, ij_polled, ij_result>>

max_kb_checks == 10
max_checks == 5

NoJob == [raised |-> FALSE, ingestionJobId |-> NONE, status |-> NONE]

IjInit ==
    /\ ij_pc = "get_knowledge_base"
    /\ ij_kb_checks = 0
    /\ ij_kb_seen = {}
    /\ ij_started = FALSE
    /\ ij_job = NoJob
    /\ ij_polled = <<>>
    /\ ij_result = NoJob

\* what get_knowledge_base may report, or that it raises
KbStatuses == {"CREATING", "ACTIVE", "FAILED", "DELETING", "DELETED", "error"}

\* one pass of the loop of lines 249-268: ACTIVE breaks; the exception raised
\* for FAILED, DELETING and DELETED is caught at line 266 like an error of the
\* call, and the loop goes on; after max_kb_checks passes the function proceeds
GetKnowledgeBase(outcome) ==
    /\ ij_pc = "get_knowledge_base"
    /\ ij_kb_checks < max_kb_checks
    /\ ij_kb_checks' = ij_kb_checks + 1
    /\ ij_kb_seen' = IF outcome = "error" THEN ij_kb_seen ELSE ij_kb_seen \cup {outcome}
    /\ ij_pc' = IF outcome = "ACTIVE" \/ ij_kb_checks + 1 = max_kb_checks
                THEN "start_ingestion_job" ELSE ij_pc
    /\ UNCHANGED <<ij_started, ij_job, ij_polled, ij_result>>

\* lines 301-306: the outer except returns a record
Uncaught(error) == [raised |-> TRUE, ingestionJobId |-> NONE, status |-> NONE]
Caught(error) == [raised |-> FALSE, ingestionJobId |-> "error", status |-> "ERROR"]

\* lines 273-278: the job is started, or the call raises
StartIngestionJob(outcome) ==
    /\ ij_pc = "start_ingestion_job"
    /\ ij_started' = TRUE
    /\ IF outcome = "error"
       THEN /\ ij_result' = Caught(outcome)
            /\ ij_pc' = "returned"
            /\ UNCHANGED ij_job
       ELSE /\ ij_job' = [raised |-> FALSE, ingestionJobId |-> "J1", status |-> outcome]
            /\ ij_pc' = "get_ingestion_job"
            /\ UNCHANGED ij_result
    /\ UNCHANGED <<ij_kb_checks, ij_kb_seen, ij_polled>>

\* line 284: the condition of the while loop (check_count is the number of polls)
Monitoring == Len(ij_polled) < max_checks /\ ij_job.status # "COMPLETE"

\* one pass of the loop of lines 284-297
GetIngestionJob(outcome) ==
    /\ ij_pc = "get_ingestion_job"
    /\ Monitoring
    /\ IF outcome = "error"
       THEN /\ ij_result' = Caught(outcome)
            /\ ij_pc' = "returned"
            /\ UNCHANGED <<ij_job, ij_polled>>
       ELSE /\ ij_job' = [ij_job EXCEPT !.status = outcome]
            /\ ij_polled' = Append(ij_polled, outcome)
            /\ ij_pc' = IF outcome \in {"COMPLETE", "FAILED", "STOPPED"}
                        THEN "return" ELSE ij_pc
            /\ UNCHANGED ij_result
    /\ UNCHANGED <<ij_kb_checks, ij_kb_seen, ij_started>>

\* line 299: return job
ReturnJob ==
    /\ \/ ij_pc = "return"
       \/ ij_pc = "get_ingestion_job" /\ ~Monitoring
    /\ ij_result' = ij_job
    /\ ij_pc' = "returned"
    /\ UNCHANGED <<ij_kb_checks, ij_kb_seen, ij_started, ij_job, ij_polled>>

(***************************************************************************)
(* One pass of the loop of the knowledge-base handler over a config, call  *)
(* by call (create_knowledge_bases.py, lines 370-422): create_vector_index *)
(* (25-120), create_knowledge_base (122-185), create_data_source (187-232) *)
(* and start_ingestion_job.  Every request is answered as the service      *)
(* chooses.                                                                *)
(***************************************************************************)
VARIABLES
    kp_idx,             \* index of the config the loop is at
    kp_pc,              \* the function the pass is in, or "appended" | "raised" | "done"
    kp_index_requests,  \* indices.create requests made for this config
    kp_index_result,    \* what create_vector_index returned (NONE: not yet)
    kp_kb_requests,     \* create_knowledge_base requests made for this config
    kp_kb,              \* the request that gave the knowledge base (0: none did)
    kp_ds_called,       \* create_data_source was called for this config
    kp_job_called,      \* start_ingestion_job was called for this config
    kp_created,         \* the folders of created_kbs
    kp_raised           \* the folders whose pass ended in the except branch

kpVars == <<kp_idx, kp_pc, kp_index_requests, kp_index_result, kp_kb_requests, kp_kb,
            kp_ds_called, kp_job_called, kp_created, kp_raised>>

\* create_vector_index(..., max_retries=3)
index_max_retries == 3

KpInit ==
    /\ kp_idx = 1
    /\ kp_pc = "create_vector_index"
    /\ kp_index_requests = 0
    /\ kp_index_result = NONE
    /\ kp_kb_requests = 0
    /\ kp_kb = 0
    /\ kp_ds_called = FALSE
    /\ kp_job_called = FALSE
    /\ kp_created = {}
    /\ kp_raised = {}

\* line 80: range(max_retries) is used up
IndexGivesUpNever(requests) == FALSE
IndexGivesUp(requests) == requests = index_max_retries

\* one pass of the loop of create_vector_index, lines 80-117: the index is
\* created, the request is refused because the index exists, it is refused for
\* another reason (RequestError), or something else is raised; after the loop the
\* function returns True as well (119-120)
CreateVectorIndex(outcome) ==
    /\ kp_pc = "create_vector_index"
    /\ kp_index_requests' = kp_index_requests + 1
    /\ IF \/ outcome \in {"created", "resource_already_exists_exception"}
          \/ IndexGivesUp(kp_index_requests + 1)
       THEN kp_index_result' = "True" /\ kp_pc' = "create_knowledge_base"
       ELSE UNCHANGED <<kp_index_result, kp_pc>>
    /\ UNCHANGED <<kp_idx, kp_kb_requests, kp_kb, kp_ds_called, kp_job_called,
                   kp_created, kp_raised>>

\* line 158: range(max_retries) is used up, and line 185 raises
KbGivesUpLate(requests) == requests = kb_max_retries + 1
KbGivesUp(requests) == requests = kb_max_retries

\* one pass of the loop of create_knowledge_base, lines 158-183
CreateKnowledgeBase(raises) ==
    /\ kp_pc = "create_knowledge_base"
    /\ kp_kb_requests' = kp_kb_requests + 1
    /\ IF ~raises
       THEN kp_kb' = kp_kb_requests + 1 /\ kp_pc' = "create_data_source"
       ELSE /\ UNCHANGED kp_kb
            /\ kp_pc' = IF KbGivesUp(kp_kb_requests + 1) THEN "raised" ELSE kp_pc
    /\ UNCHANGED <<kp_idx, kp_index_requests, kp_index_result, kp_ds_called,
                   kp_job_called, kp_created, kp_raised>>

\* lines 398-404: create_data_source has no handler of its own
CreateDataSource(raises) ==
    /\ kp_pc = "create_data_source"
    /\ kp_ds_called' = TRUE
    /\ kp_pc' = IF raises THEN "raised" ELSE "start_ingestion_job"
    /\ UNCHANGED <<kp_idx, kp_index_requests, kp_index_result, kp_kb_requests, kp_kb,
                   kp_job_called, kp_created, kp_raised>>

\* lines 408-418: start_ingestion_job returns a job or the ERROR record, and the
\* entry is appended to created_kbs
StartJobAndAppend ==
    /\ kp_pc = "start_ingestion_job"
    /\ kp_job_called' = TRUE
    /\ kp_created' = kp_created \cup {KbConfigs("aaaaa")[kp_idx].folder}
    /\ kp_pc' = "appended"
    /\ UNCHANGED <<kp_idx, kp_index_requests, kp_index_result, kp_kb_requests, kp_kb,
                   kp_ds_called, kp_raised>>

\* lines 370 and 420-422: the loop goes on with the next config, after an entry
\* and after the except branch alike
NextConfig ==
    /\ kp_pc \in {"appended", "raised"}
    /\ kp_raised' = IF kp_pc = "raised"
                     THEN kp_raised \cup {KbConfigs("aaaaa")[kp_idx].folder} ELSE kp_raised
    /\ IF kp_idx < Len(KbConfigs("aaaaa"))
       THEN /\ kp_idx' = kp_idx + 1
            /\ kp_pc' = "create_vector_index"
            /\ kp_index_requests' = 0
            /\ kp_index_result' = NONE
            /\ kp_kb_requests' = 0
            /\ kp_kb' = 0
            /\ kp_ds_called' = FALSE
            /\ kp_job_called' = FALSE
       ELSE /\ kp_pc' = "done"
            /\ UNCHANGED <<kp_idx, kp_index_requests, kp_index_result, kp_kb_requests,
                           kp_kb, kp_ds_called, kp_job_called>>
    /\ UNCHANGED kp_created

(***************************************************************************)
(* validate_bedrock_role (create_oss.py, lines 12-112), call by call, run  *)
(* twice on the same role.  IAM keeps the trust policy and the inline      *)
(* policy of the role; each call returns or raises as IAM chooses.         *)
(***************************************************************************)
VARIABLES
    vr_trust,      \* IAM: the statements of the role's trust policy
    vr_inline,     \* IAM: the role has the inline policy BedrockKBPermissionsExpanded
    vr_pc,         \* the call the function is at, or "returned" | "raised"
    vr_run,        \* 1: the first run, 2: the run after it
    vr_writes,     \* the writes to the role made by this run
    vr_swallowed,  \* this run ignored an error of get_role_policy
    vr_first       \* how the first run ended (NoRun during the first run)

vrVars == <<vr_trust, vr_inline, vr_pc, vr_run, vr_writes, vr_swallowed, vr_first>>

\* a Principal: its Service member is a string, a list, or absent
ServiceStr(name) == [kind |-> "str", names |-> {name}]
ServiceList(names) == [kind |-> "list", names |-> names]
NoService == [kind |-> "absent", names |-> {}]

\* the statements a trust policy is made of
TrustStatements ==
    {[Effect |-> "Allow", Principal |-> ServiceStr("lambda.amazonaws.com")],
     [Effect |-> "Deny", Principal |-> ServiceStr("bedrock.amazonaws.com")],
     [Effect |-> "Allow",
      Principal |-> ServiceList({"lambda.amazonaws.com", "bedrock.amazonaws.com"})],
     [Effect |-> "Allow", Principal |-> NoService]}

\* lines 32-40: an Allow statement whose Principal has a Service member that is,
\* or lists, bedrock.amazonaws.com
BedrockFound(trust_policy) ==
    \E statement \in trust_policy :
        /\ statement.Effect = "Allow"
        /\ statement.Principal.kind # "absent"
        /\ "bedrock.amazonaws.com" \in statement.Principal.names

\* lines 44-48: the statement that is appended
BedrockStatement == [Effect |-> "Allow", Principal |-> ServiceStr("bedrock.amazonaws.com")]

NoRun == [returned |-> FALSE, swallowed |-> FALSE, writes |-> {}]

VrIdle ==
    /\ vr_trust = {}
    /\ vr_inline = FALSE
    /\ vr_pc = "get_role"
    /\ vr_run = 1
    /\ vr_writes = {}
    /\ vr_swallowed = FALSE
    /\ vr_first = NoRun

VrInit ==
    /\ vr_trust \in SUBSET TrustStatements
    /\ vr_inline \in BOOLEAN
    /\ vr_pc = "get_role"
    /\ vr_run = 1
    /\ vr_writes = {}
    /\ vr_swallowed = FALSE
    /\ vr_first = NoRun

\* lines 24-51: get_role, then the search of the trust policy
GetRole(raises) ==
    /\ vr_pc = "get_role"
    /\ vr_pc' = IF raises THEN "raised"
                ELSE IF BedrockFound(vr_trust) THEN "get_role_policy"
                ELSE "update_assume_role_policy"
    /\ UNCHANGED <<vr_trust, vr_inline, vr_run, vr_writes, vr_swallowed, vr_first>>

\* lines 52-58
UpdateAssumeRolePolicy(raises) ==
    /\ vr_pc = "update_assume_role_policy"
    /\ IF raises
       THEN vr_pc' = "raised" /\ UNCHANGED <<vr_trust, vr_writes>>
       ELSE /\ vr_trust' = vr_trust \cup {BedrockStatement}
            /\ vr_writes' = vr_writes \cup {"update_assume_role_policy"}
            /\ vr_pc' = "get_role_policy"
    /\ UNCHANGED <<vr_inline, vr_run, vr_swallowed, vr_first>>

\* lines 61-66: the lookup returns the policy, raises NoSuchEntity when the role
\* has none of that name, or raises another error, which the except clause
\* ignores (no else branch at line 66)
GetRolePolicy(answers) ==
    /\ vr_pc = "get_role_policy"
    /\ vr_swallowed' = (vr_swallowed \/ ~answers)
    /\ vr_pc' = IF answers /\ ~vr_inline THEN "put_role_policy" ELSE "returned"
    /\ UNCHANGED <<vr_trust, vr_inline, vr_run, vr_writes, vr_first>>

\* lines 101-107
PutRolePolicy(raises) ==
    /\ vr_pc = "put_role_policy"
    /\ IF raises
       THEN vr_pc' = "raised" /\ UNCHANGED <<vr_inline, vr_writes>>
       ELSE /\ vr_inline' = TRUE
            /\ vr_writes' = vr_writes \cup {"put_role_policy"}
            /\ vr_pc' = "returned"
    /\ UNCHANGED <<vr_trust, vr_run, vr_swallowed, vr_first>>

\* the function is called again on the same role
ValidateAgain ==
    /\ vr_pc \in {"returned", "raised"}
    /\ vr_run = 1
    /\ vr_run' = 2
    /\ vr_first' = [returned |-> vr_pc = "returned", swallowed |-> vr_swallowed,
                    writes |-> vr_writes]
    /\ vr_pc' = "get_role"
    /\ vr_writes' = {}
    /\ vr_swallowed' = FALSE
    /\ UNCHANGED <<vr_trust, vr_inline>>

(***************************************************************************)
(* How the three provisioning handlers begin (create_oss.py 230-253,       *)
(* create_knowledge_bases.py 308-334, create_agents.py 19-61): the test of *)
(* RequestType, the answer to a Delete request, and the first service call *)
(* of the other requests.  The rest of a Create or Update run is what the  *)
(* provisioning components above describe.                                 *)
(***************************************************************************)
VARIABLES
    dr_pc,        \* "idle" | "request_type" | "get_caller_identity" | "provisioning"
    dr_handler,   \* the handler invoked
    dr_event,     \* its event: RequestType and PhysicalResourceId (NONE: no such key)
    dr_response,  \* the local `response` of create_agents (NoDrResponse elsewhere)
    dr_calls,     \* the service calls this invocation made
    dr_log        \* the invocations that are over: handler, event, response, calls

drVars == <<dr_pc, dr_handler, dr_event, dr_response, dr_calls, dr_log>>

\* invocations in one behaviour
MaxInvocations == 3

Handlers == {"create_oss", "create_knowledge_bases", "create_agents"}

\* the events of a custom resource: a Create request has no PhysicalResourceId
StackEvents ==
    {[RequestType |-> "Create", PhysicalResourceId |-> NONE],
     [RequestType |-> "Update", PhysicalResourceId |-> "resource-1"],
     [RequestType |-> "Delete", PhysicalResourceId |-> "resource-1"],
     [RequestType |-> "Delete", PhysicalResourceId |-> "resource-2"]}

NoDrResponse == [PhysicalResourceId |-> NONE, Status |-> NONE]

\* create_agents.py, lines 31-39: the default response, with a generated id
DefaultDrResponse == [PhysicalResourceId |-> "agent-creation-uuid", Status |-> NONE]

DrInit ==
    /\ dr_pc = "idle"
    /\ dr_handler = NONE
    /\ dr_event = [RequestType |-> NONE, PhysicalResourceId |-> NONE]
    /\ dr_response = NoDrResponse
    /\ dr_calls = <<>>
    /\ dr_log = <<>>

\* the invocation is over: the handler returned `response`, or raised
DrReturn(response) ==
    /\ dr_log' = Append(dr_log, [handler |-> dr_handler, event |-> dr_event,
                                 response |-> response, calls |-> dr_calls'])
    /\ dr_pc' = "idle"

\* the handler is invoked; create_agents builds its default response first
Invoke(handler, event) ==
    /\ dr_pc = "idle"
    /\ Len(dr_log) < MaxInvocations
    /\ dr_pc' = "request_type"
    /\ dr_handler' = handler
    /\ dr_event' = event
    /\ dr_response' = IF handler = "create_agents" THEN DefaultDrResponse ELSE NoDrResponse
    /\ dr_calls' = <<>>
    /\ UNCHANGED dr_log

\* create_oss.py 236, create_knowledge_bases.py 324, create_agents.py 44:
\* event.get('PhysicalResourceId')
DeleteKeepsPhysicalResourceId(response, event) == response.PhysicalResourceId
DeletePhysicalResourceId(response, event) == event.PhysicalResourceId

\* create_oss.py 233-240, create_knowledge_bases.py 321-326, create_agents.py
\* 42-45: the answer to a Delete request; create_agents returns its default
\* response, which has no Status
DeleteResponse(handler, response, event) ==
    [PhysicalResourceId |-> DeletePhysicalResourceId(response, event),
     Status |-> IF handler = "create_agents" THEN response.Status ELSE "SUCCESS"]

\* the test of RequestType, the first statement of create_oss and of
\* create_knowledge_bases; create_agents, which makes its clients inside the try,
\* returns FAILED at lines 53-57 without the role ARN
TestRequestType(has_role) ==
    /\ dr_pc = "request_type"
    /\ UNCHANGED <<dr_handler, dr_event, dr_response, dr_calls>>
    /\ IF dr_event.RequestType = "Delete"
       THEN DrReturn(DeleteResponse(dr_handler, dr_response, dr_event))
       ELSE IF dr_handler = "create_agents" /\ ~has_role
       THEN DrReturn([dr_response EXCEPT !.Status = "FAILED"])
       ELSE dr_pc' = "get_caller_identity" /\ UNCHANGED dr_log

\* create_oss.py 253 and create_knowledge_bases.py 334, outside any try;
\* create_agents.py 64, inside the try of the handler (lines 59 and 115-119)
GetCallerIdentity(raises) ==
    /\ dr_pc = "get_caller_identity"
    /\ dr_calls' = Append(dr_calls, "sts.get_caller_identity")
    /\ UNCHANGED <<dr_handler, dr_event, dr_response>>
    /\ IF ~raises
       THEN dr_pc' = "provisioning" /\ UNCHANGED dr_log
       ELSE IF dr_handler = "create_agents"
       THEN DrReturn([dr_response EXCEPT !.Status = "FAILED"])
       ELSE DrReturn([dr_response EXCEPT !.Status = "RAISED"])

\* the rest of the run, with the service calls of provisioning
Provision ==
    /\ dr_pc = "provisioning"
    /\ dr_calls' = Append(dr_calls, "provisioning")
    /\ UNCHANGED <<dr_handler, dr_event, dr_response>>
    /\ DrReturn([dr_response EXCEPT !.Status = "provisioned"])

(***************************************************************************)
(* Specifications                                                          *)
(***************************************************************************)
vars ==
    <<rtVars, rdVars, upVars, ossVars, kbVars, agVars, cdVars, saVars, idVars, spVars, ijVars, kpVars, vrVars, drVars>>
nonRuntime ==
    <<upVars, ossVars, kbVars, agVars, cdVars, saVars, idVars, spVars, ijVars, kpVars, vrVars, drVars>>
nonUpload ==
    <<rtVars, rdVars, ossVars, kbVars, agVars, cdVars, saVars, idVars, spVars, ijVars, kpVars, vrVars, drVars>>
nonOss ==
    <<rtVars, rdVars, upVars, kbVars, agVars, cdVars, saVars, idVars, spVars, ijVars, kpVars, vrVars, drVars>>
nonKb ==
    <<rtVars, rdVars, upVars, ossVars, agVars, cdVars, saVars, idVars, spVars, ijVars, kpVars, vrVars, drVars>>
nonAgents ==
    <<rtVars, rdVars, upVars, ossVars, kbVars, cdVars, saVars, idVars, spVars, ijVars, kpVars, vrVars, drVars>>
nonReplace ==
    <<rtVars, rdVars, upVars, ossVars, kbVars, agVars, saVars, idVars, spVars, ijVars, kpVars, vrVars, drVars>>
nonIdentity == <<rtVars, rdVars, upVars, ossVars, kbVars, agVars, cdVars, saVars, spVars, ijVars, kpVars, vrVars, drVars>>
nonPipeline ==
    <<rtVars, rdVars, upVars, ossVars, kbVars, agVars, cdVars, saVars, idVars, ijVars, kpVars, vrVars, drVars>>
nonIngestion ==
    <<rtVars, rdVars, upVars, ossVars, kbVars, agVars, cdVars, saVars, idVars, spVars, kpVars, vrVars, drVars>>
nonKbPass ==
    <<rtVars, rdVars, upVars, ossVars, kbVars, agVars, cdVars, saVars, idVars, spVars, ijVars, vrVars, drVars>>
nonRole ==
    <<rtVars, rdVars, upVars, ossVars, kbVars, agVars, cdVars, saVars, idVars, spVars, ijVars,
      kpVars, drVars>>
nonStart ==
    <<rtVars, rdVars, upVars, ossVars, kbVars, agVars, cdVars, saVars, idVars, spVars, ijVars,
      kpVars, vrVars>>
nonRerun ==
    <<rtVars, rdVars, upVars, ossVars, kbVars, agVars, cdVars, idVars, spVars, ijVars, kpVars, vrVars, drVars>>

\* the provisioning handlers at rest
ProvisioningIdle == OssInit /\ KbIdle /\ AgIdle /\ CdIdle /\ SaInit /\ SpIdle /\ IjInit /\ KpInit /\ VrIdle /\ DrInit

\* the ingestion trigger at rest, with the full mapping published
UpIdle ==
    /\ KNOWLEDGE_BASES = [d \in Domains |-> KbIdOf(d)]
    /\ data_sources = [k \in {KbIdOf(d) : d \in Domains} |-> <<"DS1">>]
    /\ Records = <<>>
    /\ up_pc = "idle"
    /\ up_idx = 1
    /\ up_status = 0
    /\ service_outcomes = <<>>
    /\ start_calls = <<>>
    /\ ingestion_jobs = <<>>

\* none, one, and the numbers of later sessions around the cut to SessionLimit
LaterSessionCounts == {0, 1} \cup ((SessionLimit - 2)..MaxLaterSessions)

InitRoundTrip ==
    /\ conversation_table \in SUBSET EarlierTurns
    /\ now = 0
    /\ rt_pc = "retry"
    /\ user_details \in {"u1", "anonymous"}
    /\ session_id \in {"s1", "s2"}
    /\ input_text = "q1"
    /\ attempt = 0
    /\ full_response = <<>>
    /\ thinking_steps = <<>>
    /\ statusCode = 0
    /\ invoke_calls = 0
    /\ sleeps = <<>>
    /\ save_calls = 0
    /\ put_log = <<>>
    /\ put_errors = 0
    /\ served = 0
    /\ RdInit
    /\ UpIdle
    /\ ProvisioningIdle /\ IdIdle

RoundTripNext ==
    \/ \E put_ok \in BOOLEAN : InvokeSucceeds(put_ok) /\ UNCHANGED <<rdVars, nonRuntime>>
    \/ \E m \in LaterSessionCounts, k \in {1, MaxTurnsPerSession}, same \in BOOLEAN :
          LaterTurns(m, k, same) /\ UNCHANGED nonRuntime
    \/ \E auth \in {"missing", "jwt_u1"} : GetHistory(auth) /\ UNCHANGED nonRuntime
    \/ \E auth \in {"missing", "jwt_u1"}, session \in {NONE, "s1", "s2"} :
          GetMessages(auth, session) /\ UNCHANGED nonRuntime

RtNext ==
    \/ \E body \in Bodies, auth \in AuthHeaders :
          ParseAndValidate(body, auth) /\ UNCHANGED <<rdVars, nonRuntime>>
    \/ \E partial \in BOOLEAN : InvokeRaises(partial) /\ UNCHANGED <<rdVars, nonRuntime>>
    \/ \E put_ok \in BOOLEAN : InvokeSucceeds(put_ok) /\ UNCHANGED <<rdVars, nonRuntime>>
    \/ NextRequest /\ UNCHANGED <<rdVars, nonRuntime>>
    \/ Tick /\ UNCHANGED <<rdVars, nonRuntime>>

UploadNext ==
    \/ \E batch \in SeqsUpTo(ObjectKeys, MaxBatch) : S3Event(batch) /\ UNCHANGED nonUpload
    \/ \E outcome \in {"ok", "list_raises", "start_raises", "none"} :
          ProcessRecord(outcome) /\ UNCHANGED nonUpload
    \/ UploadReturn /\ UNCHANGED nonUpload

OssNext ==
    \/ \E request_type \in {"Create", "Update", "Delete"}, suffix \in Suffixes :
          OssRequest(request_type, suffix) /\ UNCHANGED nonOss
    \/ \E outcome \in {"ok", "invalid_arn", "raises"} :
          ValidateRole(outcome) /\ UNCHANGED nonOss
    \/ \E failure \in {"none", "encryption", "network", "data"} :
          CreatePolicies(failure) /\ UNCHANGED nonOss
    \/ \E outcome \in {"ok", "get_raises", "create_raises"} :
          CreateOrGetCollection(outcome) /\ UNCHANGED nonOss
    \/ \E name \in DOMAIN collections, status \in {"ACTIVE", "FAILED"} :
          CollectionSettles(name, status) /\ UNCHANGED nonOss
    \/ \E raises \in BOOLEAN : PollCollection(raises) /\ UNCHANGED nonOss

KbNext ==
    \/ \E request_type \in {"Create", "Delete"}, has_collection \in BOOLEAN,
          configs \in {<<>>, KbConfigs("aaaaa")} :
          KbRequest(request_type, has_collection, configs) /\ UNCHANGED nonKb
    \/ \E kb_failures \in 0..kb_max_retries, ds_ok \in BOOLEAN, job_ok \in BOOLEAN :
          ProcessKbConfig(kb_failures, ds_ok, job_ok) /\ UNCHANGED nonKb
    \/ KbReturn /\ UNCHANGED nonKb
    \/ KbRunAgain /\ UNCHANGED nonKb

InitRuntime == RtInit /\ RdInit /\ UpIdle /\ ProvisioningIdle /\ IdIdle

InitUpload == UpInit /\ RtInit /\ RdInit /\ ProvisioningIdle /\ IdIdle

AgentsNext ==
    \/ \E request_type \in {"Create", "Update", "Delete"}, has_role \in BOOLEAN :
          AgRequest(request_type, has_role) /\ UNCHANGED nonAgents
    \/ \E failure \in 0..Len(Composition) : SpecialistAgent(failure) /\ UNCHANGED nonAgents
    \/ \E failure \in 0..Len(Composition), associated \in 0..Len(agent_configs) :
          SupervisorAttempt(failure, associated) /\ UNCHANGED nonAgents

InitOss == OssInit /\ KbIdle /\ AgIdle /\ CdIdle /\ SaInit /\ RtInit /\ RdInit /\ UpIdle
        /\ IdIdle /\ SpIdle /\ IjInit /\ KpInit /\ VrIdle /\ DrInit

InitOssExisting == OssExisting /\ KbIdle /\ AgIdle /\ CdIdle /\ SaInit /\ RtInit /\ RdInit /\ UpIdle
        /\ IdIdle /\ SpIdle /\ IjInit /\ KpInit /\ VrIdle /\ DrInit

InitKb == KbInit /\ OssInit /\ AgIdle /\ CdIdle /\ SaInit /\ RtInit /\ RdInit /\ UpIdle
        /\ IdIdle /\ SpIdle /\ IjInit /\ KpInit /\ VrIdle /\ DrInit

InitAgents == AgInit /\ OssInit /\ KbIdle /\ CdIdle /\ SaInit /\ RtInit /\ RdInit /\ UpIdle
        /\ IdIdle /\ SpIdle /\ IjInit /\ KpInit /\ VrIdle /\ DrInit

ReplaceNext ==
    \/ CdBegin /\ UNCHANGED nonReplace
    \/ \E raises \in BOOLEAN, summaries \in Listings :
          ListAgents(raises, summaries) /\ UNCHANGED nonReplace
    \/ \E raises \in BOOLEAN : DeleteAgent(raises) /\ UNCHANGED nonReplace
    \/ SleepBeforeGetAgent /\ UNCHANGED nonReplace
    \/ \E raises \in BOOLEAN : GetAgent(raises) /\ UNCHANGED nonReplace
    \/ AgentDeleted /\ UNCHANGED nonReplace
    \/ \E raises \in BOOLEAN : CreateSupervisor(raises) /\ UNCHANGED nonReplace
    \/ \E raises \in BOOLEAN : RestOfAttempt(raises) /\ UNCHANGED nonReplace

InitReplace ==
    CdInit /\ OssInit /\ KbIdle /\ AgIdle /\ SaInit /\ RtInit /\ RdInit /\ UpIdle
        /\ IdIdle /\ SpIdle /\ IjInit /\ KpInit /\ VrIdle /\ DrInit

RerunNext ==
    \/ \E failure \in 0..Len(Composition) :
          CreateSpecializedAgent(failure) /\ UNCHANGED nonRerun
    \/ RunAgain /\ UNCHANGED nonRerun

InitRerun ==
    SaInit /\ OssInit /\ KbIdle /\ AgIdle /\ CdIdle /\ RtInit /\ RdInit /\ UpIdle
        /\ IdIdle /\ SpIdle /\ IjInit /\ KpInit /\ VrIdle /\ DrInit

SpecAgents == InitAgents /\ [][AgentsNext]_vars

SpecReplace == InitReplace /\ [][ReplaceNext]_vars

SpecRerun == InitRerun /\ [][RerunNext]_vars

IdentityNext == CallExtractUserDetails /\ UNCHANGED nonIdentity

InitIdentity == IdInit /\ ProvisioningIdle /\ RtInit /\ RdInit /\ UpIdle

SpecIdentity == InitIdentity /\ [][IdentityNext]_vars

\* the steps of create_supervisor_agent itself; the service's step (AgentDeleted)
\* is not among them
ReplaceHandlerStep ==
    \/ CdBegin /\ UNCHANGED nonReplace
    \/ \E raises \in BOOLEAN, summaries \in Listings :
          ListAgents(raises, summaries) /\ UNCHANGED nonReplace
    \/ \E raises \in BOOLEAN : DeleteAgent(raises) /\ UNCHANGED nonReplace
    \/ SleepBeforeGetAgent /\ UNCHANGED nonReplace
    \/ \E raises \in BOOLEAN : GetAgent(raises) /\ UNCHANGED nonReplace
    \/ \E raises \in BOOLEAN : CreateSupervisor(raises) /\ UNCHANGED nonReplace
    \/ \E raises \in BOOLEAN : RestOfAttempt(raises) /\ UNCHANGED nonReplace

\* the function keeps running: a step of it that can be taken is taken; nothing is
\* assumed of the service
SpecReplaceFair == InitReplace /\ [][ReplaceNext]_vars /\ WF_vars(ReplaceHandlerStep)

\* what get_agent may report, or the error it raises
AgentStatuses == {"CREATING", "NOT_PREPARED", "PREPARING", "PREPARED", "FAILED",
                  "ResourceNotFoundException", "error"}

PipelineNext ==
    \/ \E call \in {"check_and_delete_existing_agent", "create_agent",
                     "add_collaborators_to_supervisor", "associate_knowledge_base",
                     "prepare_agent", "create_agent_alias"}, raises \in BOOLEAN :
          SpCall(call, raises) /\ UNCHANGED nonPipeline
    \/ \E outcome \in AgentStatuses : WaitForAgentStatus(outcome) /\ UNCHANGED nonPipeline
    \/ \E outcome \in {"ok", "Agent is in", "ValidationException", "error"} :
          CreateActionGroup(outcome) /\ UNCHANGED nonPipeline
    \/ \E outcome \in AgentStatuses \ {"ResourceNotFoundException"} :
          WaitForAgentPrepared(outcome) /\ UNCHANGED nonPipeline
    \/ NextPipeline /\ UNCHANGED nonPipeline

InitPipeline ==
    SpInit /\ OssInit /\ KbIdle /\ AgIdle /\ CdIdle /\ SaInit /\ RtInit /\ RdInit /\ UpIdle
        /\ IdIdle /\ IjInit /\ KpInit /\ VrIdle /\ DrInit

SpecPipeline == InitPipeline /\ [][PipelineNext]_vars

\* what a job may report, or that the call raises
JobStatuses == {"STARTING", "IN_PROGRESS", "COMPLETE", "FAILED", "STOPPED", "error"}

IngestionNext ==
    \/ \E outcome \in KbStatuses : GetKnowledgeBase(outcome) /\ UNCHANGED nonIngestion
    \/ \E outcome \in {"STARTING", "COMPLETE", "FAILED", "error"} :
          StartIngestionJob(outcome) /\ UNCHANGED nonIngestion
    \/ \E outcome \in JobStatuses : GetIngestionJob(outcome) /\ UNCHANGED nonIngestion
    \/ ReturnJob /\ UNCHANGED nonIngestion

InitIngestion ==
    IjInit /\ SpIdle /\ OssInit /\ KbIdle /\ AgIdle /\ CdIdle /\ SaInit /\ RtInit /\ RdInit
        /\ UpIdle /\ IdIdle /\ KpInit /\ VrIdle /\ DrInit

SpecIngestion == InitIngestion /\ [][IngestionNext]_vars

KbPassNext ==
    \/ \E outcome \in {"created", "resource_already_exists_exception", "RequestError",
                        "error"} :
          CreateVectorIndex(outcome) /\ UNCHANGED nonKbPass
    \/ \E raises \in BOOLEAN : CreateKnowledgeBase(raises) /\ UNCHANGED nonKbPass
    \/ \E raises \in BOOLEAN : CreateDataSource(raises) /\ UNCHANGED nonKbPass
    \/ StartJobAndAppend /\ UNCHANGED nonKbPass
    \/ NextConfig /\ UNCHANGED nonKbPass

InitKbPass ==
    KpInit /\ IjInit /\ SpIdle /\ OssInit /\ KbIdle /\ AgIdle /\ CdIdle /\ SaInit /\ RtInit
        /\ RdInit /\ UpIdle /\ IdIdle /\ VrIdle /\ DrInit

SpecKbPass == InitKbPass /\ [][KbPassNext]_vars

RoleNext ==
    \/ \E raises \in BOOLEAN : GetRole(raises) /\ UNCHANGED nonRole
    \/ \E raises \in BOOLEAN : UpdateAssumeRolePolicy(raises) /\ UNCHANGED nonRole
    \/ \E answers \in BOOLEAN : GetRolePolicy(answers) /\ UNCHANGED nonRole
    \/ \E raises \in BOOLEAN : PutRolePolicy(raises) /\ UNCHANGED nonRole
    \/ ValidateAgain /\ UNCHANGED nonRole

InitRole ==
    VrInit /\ KpInit /\ IjInit /\ SpIdle /\ OssInit /\ KbIdle /\ AgIdle /\ CdIdle /\ SaInit
        /\ RtInit /\ RdInit /\ UpIdle /\ IdIdle /\ DrInit

SpecRole == InitRole /\ [][RoleNext]_vars

StartNext ==
    \/ \E handler \in Handlers, event \in StackEvents :
          Invoke(handler, event) /\ UNCHANGED nonStart
    \/ \E has_role \in BOOLEAN : TestRequestType(has_role) /\ UNCHANGED nonStart
    \/ \E raises \in BOOLEAN : GetCallerIdentity(raises) /\ UNCHANGED nonStart
    \/ Provision /\ UNCHANGED nonStart

InitStart ==
    DrInit /\ VrIdle /\ KpInit /\ IjInit /\ SpIdle /\ OssInit /\ KbIdle /\ AgIdle /\ CdIdle
        /\ SaInit /\ RtInit /\ RdInit /\ UpIdle /\ IdIdle

SpecStart == InitStart /\ [][StartNext]_vars

SpecKb == InitKb /\ [][KbNext]_vars

SpecOss == InitOss /\ [][OssNext]_vars

SpecOssExisting == InitOssExisting /\ [][OssNext]_vars

SpecRuntime == InitRuntime /\ [][RtNext]_vars

SpecUpload == InitUpload /\ [][UploadNext]_vars

SpecRoundTrip == InitRoundTrip /\ [][RoundTripNext]_vars

(***************************************************************************)
(* Claims about the runtime request handler.                               *)
(***************************************************************************)

\* C4 (as stated): when the first 2 attempts raise and the 3rd succeeds, exactly
\* one Conversation Turn is persisted for the request.
C4_ExactlyOneTurnPersisted ==
    (rt_pc = "done" /\ statusCode = 200 /\ attempt = 2) => Len(put_log) = 1

\* C4 (amended): attempts that raise never call save_conversation; when the first
\* 2 attempts raise and the 3rd succeeds, save_conversation is called exactly once,
\* by the 3rd attempt, so at most one turn is persisted: exactly one, the turn of
\* this request, when its put_item succeeds and none when the put_item raises.
C4_OneSaveByTheSuccessfulAttempt ==
    /\ rt_pc = "retry" => (save_calls = 0 /\ put_log = <<>> /\ put_errors = 0)
    /\ (rt_pc = "done" /\ statusCode = 200 /\ attempt = 2) =>
          /\ invoke_calls = 3
          /\ save_calls = 1
          /\ Len(put_log) + put_errors = 1
          /\ \A i \in 1..Len(put_log) :
                /\ put_log[i].userId = user_details
                /\ put_log[i].sessionId = session_id
                /\ put_log[i].userQuery = input_text
                /\ put_log[i] \in conversation_table

C4_Witness ==
    rt_pc = "done" /\ statusCode = 200 /\ attempt = 2 /\ Len(put_log) = 1

\* C8: when the request message is missing or empty the handler returns 400
\* without calling invoke_agent, without sleeping for a retry and without saving.
C8_EmptyMessageIs400 ==
    (rt_pc = "done" /\ input_text \in {NONE, ""}) =>
        /\ statusCode = 400
        /\ invoke_calls = 0
        /\ sleeps = <<>>
        /\ save_calls = 0

\* C9: invoke_agent is called at most 5 times per request, the waits between
\* consecutive attempts are 1, 2, 4 and 8 seconds, the handler returns 500 exactly
\* when all 5 attempts raised, and then nothing was saved.
C9_RetryBudget ==
    /\ invoke_calls <= 5
    /\ Len(sleeps) <= 4
    /\ \A i \in 1..Len(sleeps) : sleeps[i] = <<1, 2, 4, 8>>[i]
    /\ rt_pc = "retry" => Len(sleeps) = invoke_calls
    /\ (rt_pc = "done" /\ statusCode \in {200, 500}) => Len(sleeps) = invoke_calls - 1
    /\ statusCode = 500 <=> (rt_pc = "done" /\ attempt = 5 /\ invoke_calls = 5)
    /\ statusCode = 500 => (save_calls = 0 /\ put_log = <<>>)

C9_Witness ==
    rt_pc = "done" /\ statusCode = 500 /\ sleeps = <<1, 2, 4, 8>>

\* C11 (as stated): the table is append-only: no step of the runtime handler removes
\* or changes a turn that was persisted earlier.
C11_AppendOnly == [][conversation_table \subseteq conversation_table']_vars

\* C12 (as stated): when the handler returns 200 for a request, a turn of that
\* exchange has been persisted.
C12_Persisted200 ==
    (rt_pc = "done" /\ statusCode = 200)
        => \E i \in conversation_table :
              /\ i.userId = user_details /\ i.sessionId = session_id
              /\ i.userQuery = input_text /\ i.response = full_response

\* C12 (amended): when the handler returns 200 for a request, save_conversation has
\* been called exactly once for that exchange, with one put_item: the turn is in the
\* table when the put_item returned, and nothing was written when it raised (the
\* error is logged, and the response is 200 all the same).
C12_SavedOnceBefore200 ==
    (rt_pc = "done" /\ statusCode = 200)
        => /\ save_calls = 1
           /\ Len(put_log) + put_errors = 1
           /\ put_errors = 0
                => \E i \in conversation_table :
                      /\ i.userId = user_details /\ i.sessionId = session_id
                      /\ i.userQuery = input_text /\ i.response = full_response
           /\ put_errors = 1 => put_log = <<>>

\* a 200 response after a put_item that raised
C12_Witness == rt_pc = "done" /\ statusCode = 200 /\ put_errors = 1

\* C33: the answer text and the trace list of a 200 response, and of the turn
\* persisted for it, hold the output of the attempt that succeeded and nothing
\* read in an earlier attempt that raised part-way through the stream.
C33_OnlySuccessfulAttempt ==
    (rt_pc = "done" /\ statusCode = 200)
        => /\ full_response = <<"answer">>
           /\ thinking_steps = <<"answer">>
           /\ \A k \in DOMAIN put_log :
                 (put_log[k].sessionId = session_id /\ put_log[k].timestamp = now)
                     => put_log[k].response = <<"answer">>

(***************************************************************************)
(* Claims about identity extraction.                                       *)
(***************************************************************************)

\* the header the function reads: Authorization, or authorization when that one
\* is absent or empty
AuthHeaderOf(event) ==
    IF event.Authorization \notin {NoValue, EmptyString} THEN event.Authorization
    ELSE event.authorization

MissingHeader(event) ==
    event.headers # "dict" \/ AuthHeaderOf(event) \in {NoValue, EmptyString}

NoBearerPrefix(event) ==
    ~MissingHeader(event)
        /\ (AuthHeaderOf(event).scheme # "Bearer" \/ AuthHeaderOf(event).rest = <<>>)

\* the token: what follows 'Bearer ' up to the next space
TokenOf(event) == AuthHeaderOf(event).rest[1]

NotThreeParts(event) ==
    ~MissingHeader(event) /\ ~NoBearerPrefix(event) /\ Len(TokenOf(event)) # 3

\* the payload part is not the base64 of a UTF-8 JSON text
PayloadFailsToDecode(event) ==
    /\ ~MissingHeader(event) /\ ~NoBearerPrefix(event) /\ ~NotThreeParts(event)
    /\ \/ TokenOf(event)[2].content
              \in {"empty", "not_base64", "not_utf8", "not_json"}
       \/ TokenOf(event)[2].data = 1

\* C19: extract_user_details never raises, and for a missing Authorization header,
\* a header without the 'Bearer ' prefix, a token that has not exactly three
\* dot-separated parts, or a payload that fails to decode, it returns the
\* anonymous identity.
C19_AnonymousNeverRaises ==
    /\ id_pc # "raised"
    /\ (id_pc = "returned"
          /\ (MissingHeader(id_event) \/ NoBearerPrefix(id_event)
                \/ NotThreeParts(id_event) \/ PayloadFailsToDecode(id_event)))
        => id_result = Anonymous

\* the function has returned for an event whose 'headers' is null
C19_Witness ==
    /\ id_pc = "returned"
    /\ id_event.headers = "null"
    /\ id_result = Anonymous

\* the function has returned the claims of a well-formed token
C19_Decoded ==
    /\ id_pc = "returned"
    /\ id_result = [userId |-> "u1", username |-> "alice", email |-> "alice@example.com"]

(***************************************************************************)
(* Claims about the round trip of a Conversation Turn.                     *)
(***************************************************************************)
\* the turn under study, once it is written
Written == put_log[1]

TurnsOf(user, session) ==
    {i \in conversation_table : i.userId = user /\ i.sessionId = session}

LatestOf(user, session) ==
    CHOOSE i \in TurnsOf(user, session) :
        \A j \in TurnsOf(user, session) : j.timestamp <= i.timestamp

\* the by-user response has an entry for the session of the written turn, and the
\* entry is the latest turn of that session with its timestamp
HistoryHasSession ==
    \E k \in 1..Len(history_response.body) :
        /\ history_response.body[k].sessionId = Written.sessionId
        /\ history_response.body[k].timestamp =
               LatestOf(Written.userId, Written.sessionId).timestamp
        /\ history_response.body[k].latestMessage =
               LatestOf(Written.userId, Written.sessionId).userQuery

\* the by-session response holds the written turn's query/response pair
MessagesHaveTurn ==
    \E k \in 1..Len(messages_response.body) :
        /\ messages_response.body[k].timestamp = Written.timestamp
        /\ messages_response.body[k].userQuery = Written.userQuery
        /\ messages_response.body[k].response = Written.response

HistoryAsked ==
    /\ Len(put_log) = 1
    /\ history_response.statusCode = 200
    /\ history_response.userId = Written.userId

MessagesAsked ==
    /\ Len(put_log) = 1
    /\ messages_response.statusCode = 200
    /\ messages_response.userId = Written.userId
    /\ messages_response.sessionId = Written.sessionId

\* the turns of the session that the requesting user wrote, as messages
OwnTurnsOf(table, user, session) ==
    MapMessages(SortAsc({i \in table : i.sessionId = session /\ i.userId = user}))

\* C38: the messages of a by-session response are those of the requester's own
\* turns of the session, in order; the response is the one the table gives once the
\* turns of every other user are taken out of it.
C38_OnlyOwnTurns ==
    messages_response.statusCode = 200
        => messages_response.body
               = OwnTurnsOf(conversation_table, messages_response.userId,
                            messages_response.sessionId)

\* u1 asked for s1, where the anonymous user has a turn too
C38_Witness ==
    /\ messages_response.statusCode = 200
    /\ messages_response.userId = "u1"
    /\ messages_response.sessionId = "s1"
    /\ messages_response.body # <<>>
    /\ \E i \in conversation_table : i.sessionId = "s1" /\ i.userId = "anonymous"

\* the session of the written turn is among the user's SessionLimit most recently
\* active sessions, and its latest turn among the user's QueryLimit latest turns
RecentSession ==
    LET last == LatestOf(Written.userId, Written.sessionId).timestamp
        newer == {i \in conversation_table :
                     i.userId = Written.userId /\ i.timestamp > last}
    IN  /\ Cardinality(newer) < QueryLimit
        /\ Cardinality({i.sessionId : i \in newer}) < SessionLimit

\* C10 (as stated): a written turn is retrievable afterwards by its user via the
\* by-user path (the entry of its session is the latest turn of the session) and
\* via the by-session path (the exact query/response pair), whatever other turns
\* the table holds.
C10_RoundTrip ==
    /\ HistoryAsked => HistoryHasSession
    /\ MessagesAsked => MessagesHaveTurn

\* C10 (within the limits, the written turn not replaced): the by-session path
\* returns the pair; the by-user path returns the session's entry (its latest
\* turn, with its timestamp) exactly when
\* the session is among the user's 20 most recently active sessions and its
\* latest turn among the user's 100 latest turns.
C10_RoundTripWithinLimits ==
    /\ HistoryAsked => (HistoryHasSession <=> RecentSession)
    /\ HistoryAsked =>
          \A k \in 1..Len(history_response.body) :
              history_response.body[k].sessionId = Written.sessionId => RecentSession
    /\ MessagesAsked => MessagesHaveTurn

C10_Witness ==
    /\ HistoryAsked
    /\ MessagesAsked
    /\ RecentSession
    /\ HistoryHasSession
    /\ Cardinality(conversation_table) > QueryLimit
    /\ Cardinality(TurnsOf(Written.userId, Written.sessionId)) > 1

(***************************************************************************)
(* Claims about the ingestion trigger.                                     *)
(***************************************************************************)
\* record i has a folder that the published mapping maps to a knowledge base
\* that has a data source
Eligible(i) ==
    /\ Len(Records[i]) >= 2
    /\ FolderOf(Records[i]) \in DOMAIN KNOWLEDGE_BASES
    /\ data_sources[KNOWLEDGE_BASES[FolderOf(Records[i])]] # <<>>

JobsOf(i) == Cardinality({k \in 1..Len(ingestion_jobs) : ingestion_jobs[k].record = i})
StartCallsOf(i) == Cardinality({k \in 1..Len(start_calls) : start_calls[k] = i})

\* C7 (as stated): exactly one ingestion job is started for each record whose
\* first path segment maps to a knowledge base that has a data source, none for
\* any other record, and the handler always returns 200.
C7_OneJobPerEligibleRecord ==
    up_pc = "done" =>
        /\ up_status = 200
        /\ \A i \in 1..Len(Records) : JobsOf(i) = (IF Eligible(i) THEN 1 ELSE 0)

\* C7 (amended): every record of the batch is handled and the handler returns
\* 200; start_ingestion_job is called exactly once for each eligible record for
\* which list_data_sources returned, and never for another record; the job is
\* started, on the first data source of the mapped knowledge base, unless
\* start_ingestion_job raises.
C7_OneJobPerEligibleRecordUnlessServiceError ==
    up_pc = "done" =>
        /\ up_status = 200
        /\ Len(service_outcomes) = Len(Records)
        /\ \A i \in 1..Len(Records) :
              /\ StartCallsOf(i) =
                     (IF Eligible(i) /\ service_outcomes[i] # "list_raises" THEN 1 ELSE 0)
              /\ JobsOf(i) =
                     (IF Eligible(i) /\ service_outcomes[i] = "ok" THEN 1 ELSE 0)
        /\ \A k \in 1..Len(ingestion_jobs) :
              LET job == ingestion_jobs[k]
              IN  /\ job.knowledgeBaseId = KNOWLEDGE_BASES[FolderOf(Records[job.record])]
                  /\ job.dataSourceId = data_sources[job.knowledgeBaseId][1]

\* a batch in which the first record fails and the second one starts its job
C7_Witness ==
    /\ up_pc = "done"
    /\ Len(Records) = 2
    /\ service_outcomes[1] \in {"list_raises", "start_raises"}
    /\ Eligible(2)
    /\ JobsOf(2) = 1
    /\ JobsOf(1) = 0

\* C34: for every domain of the published mapping, a notification for a key under
\* the folder that the domain's data source ingests (the `folder` of its config)
\* starts an ingestion job on the domain's knowledge base, when the knowledge base
\* has a data source and the service raises nothing; so for all five folders, that
\* of the IT helpdesk included.
C34_DataSourceFolderTriggers ==
    up_pc = "done" =>
        \A i \in 1..Len(Records), k \in DOMAIN Folders :
            (/\ Len(Records[i]) >= 2
             /\ Records[i][1] = Folders[k][1]
             /\ KbType(Folders[k]) \in DOMAIN KNOWLEDGE_BASES
             /\ data_sources[KNOWLEDGE_BASES[KbType(Folders[k])]] # <<>>
             /\ service_outcomes[i] \notin {"list_raises", "start_raises"})
                => \E n \in 1..Len(ingestion_jobs) :
                      /\ ingestion_jobs[n].record = i
                      /\ ingestion_jobs[n].knowledgeBaseId
                            = KNOWLEDGE_BASES[KbType(Folders[k])]

(***************************************************************************)
(* Claims about collection and policy provisioning.                        *)
(***************************************************************************)

\* the runs that went through provisioning (not Delete requests, not runs in
\* which validate_bedrock_role raised)
ProvisioningRuns ==
    {i \in DOMAIN oss_runs :
        oss_runs[i].Reason # "Delete" /\ oss_runs[i].Status # "RAISED"}

\* C3 (as stated): a provisioning run that follows a successful run with the same
\* names does not fail on an "already exists" condition and returns the same
\* collection id, ARN and host as the earlier run.
C3_RerunIsIdempotent ==
    \A i, j \in ProvisioningRuns :
        (i < j /\ oss_runs[i].suffix = oss_runs[j].suffix
               /\ oss_runs[i].Status = "SUCCESS")
        => /\ oss_runs[j].Reason # "ConflictException"
           /\ oss_runs[j].Status = "SUCCESS"
                => /\ oss_runs[j].collection_id = oss_runs[i].collection_id
                   /\ oss_runs[j].collection_arn = oss_runs[i].collection_arn
                   /\ oss_runs[j].collection_host = oss_runs[i].collection_host

\* C15: every fatal failure of a provisioning run of the collection handler (role
\* validation, policy or collection failure) comes back as a response with Status
\* FAILED and a Reason; no run ends with an exception that leaves the handler.
C15_FatalFailuresStructured ==
    \A i \in DOMAIN oss_runs :
        /\ oss_runs[i].Status # "RAISED"
        /\ oss_runs[i].Status = "FAILED" => oss_runs[i].Reason # NONE

\* the three policies scoped to the collection of a suffix exist
AllPolicies(suffix) ==
    /\ <<"encryption", EncPolicyName(suffix)>> \in security_policies
    /\ <<"network", NetworkPolicyName(suffix)>> \in security_policies
    /\ AccessPolicyName(suffix) \in access_policies

\* C31: the handler looks up or creates the collection only when the encryption,
\* network and access policies of its name exist, and a collection exists only
\* with its three policies; a run in which the creation of a policy failed ends
\* without a collection id.
C31_PoliciesBeforeCollection ==
    /\ oss_pc \in {"collection", "poll"} => AllPolicies(oss_suffix)
    /\ \A s \in Suffixes : CollectionName(s) \in DOMAIN collections => AllPolicies(s)
    /\ \A i \in DOMAIN oss_runs :
          oss_runs[i].collection_id # NONE => AllPolicies(oss_runs[i].suffix)

\* the collection of the run is being created, after its policies
C31_Witness ==
    /\ oss_pc = "poll"
    /\ CollectionName(oss_suffix) \in DOMAIN collections
    /\ AllPolicies(oss_suffix)

\* C32: whenever create_or_get_collection returns an (id, arn, host) triple, the
\* collection is not in the CREATING status, whether this call created it or an
\* existing collection of the name was reused.
C32_ReturnedCollectionSettled ==
    [][(/\ Len(oss_runs') > Len(oss_runs)
        /\ oss_runs'[Len(oss_runs')].collection_id # NONE)
           => collections[CollectionName(oss_suffix)].status # "CREATING"]_vars

(***************************************************************************)
(* Claims about knowledge-base provisioning.                               *)
(***************************************************************************)

\* the handler went through the loop and returned the mapping
KbMappingReturned == kb_pc = "done" /\ kb_idx > Len(kb_configs) /\ kb_configs # <<>>

\* C2: when the knowledge-base handler returns its mapping, a domain whose creation
\* failed is not in the mapping, and every other domain has its entry, which is the
\* id the service gave to the knowledge base of that domain whatever happened to
\* the other domains.
C2_FailedDomainAbsentOthersUnaffected ==
    KbMappingReturned =>
        \A k \in DOMAIN kb_configs :
            LET kb_config == kb_configs[k]
                kb_type == KbType(kb_config.folder)
                mapping == kb_response.KNOWLEDGE_BASES
            IN  IF kb_config.folder \in kb_failed
                THEN kb_type \notin DOMAIN mapping
                ELSE /\ kb_type \in DOMAIN mapping
                     /\ mapping[kb_type] = KnowledgeBaseId(kb_config.name)

\* a run in which the knowledge base of one domain failed, that of a later domain
\* and that of an earlier domain were created
C2_Witness ==
    /\ KbMappingReturned
    /\ <<"payroll">> \in kb_failed
    /\ {"hr", "benefits"} \subseteq DOMAIN kb_response.KNOWLEDGE_BASES
    /\ "payroll" \notin DOMAIN kb_response.KNOWLEDGE_BASES

\* C13: a second run of the knowledge-base handler with the configs of the first
\* run, the knowledge bases of the first run still existing, returns the same
\* domain-to-knowledge-base mapping as the first run.
C13_RerunSameMapping ==
    (KbMappingReturned /\ kb_previous.kb_configs = kb_configs)
        => kb_response.KNOWLEDGE_BASES = kb_previous.KNOWLEDGE_BASES

\* the domains of the configs of this run
ConfiguredDomains == {KbType(kb_configs[k].folder) : k \in DOMAIN kb_configs}

\* C35: when the knowledge-base handler has returned, a domain is in the mapping
\* exactly when create_knowledge_base and create_data_source both returned for it
\* in this run; whether the ingestion job was started plays no part.
C35_MappedIffKbAndDataSource ==
    kb_pc = "done" =>
        \A t \in ConfiguredDomains \cup DOMAIN kb_response.KNOWLEDGE_BASES :
            t \in DOMAIN kb_response.KNOWLEDGE_BASES
                <=> \E folder \in kb_made \cap ds_made : KbType(folder) = t

\* the job of hr could not be started and hr is mapped, the data source of payroll
\* failed and payroll is not
C35_Witness ==
    /\ KbMappingReturned
    /\ \E k \in DOMAIN created_kbs :
          created_kbs[k].folder = <<"hr">> /\ created_kbs[k].ingestionJobId = "error"
    /\ "hr" \in DOMAIN kb_response.KNOWLEDGE_BASES
    /\ <<"payroll">> \in kb_made \ ds_made
    /\ "payroll" \notin DOMAIN kb_response.KNOWLEDGE_BASES

(***************************************************************************)
(* Claims about agent provisioning.                                        *)
(***************************************************************************)

\* the calls of a record of calls, as a set
Called(record) == {record.calls[k] : k \in DOMAIN record.calls}

\* C1: in every composition attempt, prepare_agent is called on the supervisor only
\* if at least one collaborator was associated in that attempt; an attempt with no
\* collaborator raises before the preparation and creates no supervisor alias.
C1_NoPrepareWithoutCollaborator ==
    /\ "prepare_agent" \in Called(last_composition)
          => last_composition.collaborator_count >= 1
    /\ (last_composition.calls # <<>> /\ last_composition.collaborator_count = 0)
          => /\ last_composition.raised
             /\ "prepare_agent" \notin Called(last_composition)
             /\ "create_agent_alias" \notin Called(last_composition)
             /\ last_composition.agent_alias_id = NONE

\* an attempt that got as far as adding collaborators, with specialists created,
\* and associated none of them
C1_Witness ==
    /\ DOMAIN created_agents # {}
    /\ last_composition.calls = SubSeq(Composition, 1, 4)
    /\ last_composition.collaborator_count = 0
    /\ last_composition.raised

\* C5: create_specialized_agents handles every configured agent and then returns
\* (the handler goes on to the supervisor); its result holds exactly the agents for
\* which every call of the pipeline returned, so that an agent is in the result or
\* not whatever happened to the other agents.
C5_ExactlySucceededAgents ==
    /\ DOMAIN created_agents = pipeline_ok
    /\ last_pipeline.agent_name # NONE
          => LET agent_config ==
                     CHOOSE c \in {agent_configs[k] : k \in DOMAIN agent_configs} :
                         c.agent_name = last_pipeline.agent_name
             IN  last_pipeline.agent_name \in DOMAIN created_agents
                   <=> (~last_pipeline.raised /\ last_pipeline.calls = Pipeline(agent_config))
    /\ \A k \in DOMAIN attempted : attempted[k] = agent_configs[k].agent_name
    /\ (ag_pc = "supervisor" \/ sup_attempt > 0) => Len(attempted) = Len(agent_configs)
    /\ Len(attempted) = Len(agent_configs) => (ag_pc \in {"supervisor", "done"} /\ sup_attempt >= 1)

\* the second agent failed, the first and the last were created
C5_Witness ==
    /\ Len(attempted) = Len(agent_configs)
    /\ "eva_payroll" \notin DOMAIN created_agents
    /\ {"eva_hr", "eva_search"} \subseteq DOMAIN created_agents

\* C6: create_supervisor_agent makes at most 3 composition attempts; the handler
\* returns the ids of the first attempt that completes, and when 3 attempts have
\* failed it reports Status FAILED and leaves both ids as NOT_CREATED.
C6_ThreeAttempts ==
    /\ sup_attempt <= supervisor_max_retries
    /\ sup_failed <= supervisor_max_retries
    /\ (ag_pc = "done" /\ ag_response.supervisorAgentId # "NOT_CREATED")
          => /\ ~last_composition.raised
             /\ sup_failed = sup_attempt - 1
             /\ ag_response.supervisorAgentId = last_composition.agent_id
             /\ ag_response.supervisorAgentAliasId = last_composition.agent_alias_id
             /\ ag_response.Status # "FAILED"
    /\ (ag_pc = "done" /\ last_composition.raised)
          => /\ sup_failed = supervisor_max_retries
             /\ ag_response.Status = "FAILED"
             /\ ag_response.supervisorAgentId = "NOT_CREATED"
             /\ ag_response.supervisorAgentAliasId = "NOT_CREATED"
    /\ sup_failed = supervisor_max_retries => ag_pc = "done"

\* all three attempts failed
C6_Witness ==
    /\ ag_pc = "done"
    /\ sup_failed = supervisor_max_retries
    /\ ag_response.Status = "FAILED"

\* C39: the response to a Create or Update request has Status FAILED exactly when
\* both supervisor ids are still NOT_CREATED; otherwise they are the ids of the
\* supervisor of the last attempt, in which prepare_agent, wait_for_agent_prepared
\* and create_agent_alias all returned; the four Data keys are in every response.
C39_FailedIffNotCreated ==
    (ag_pc = "done" /\ ag_request_type \in {"Create", "Update"})
        => /\ ag_response.Status = "FAILED"
                <=> /\ ag_response.supervisorAgentId = "NOT_CREATED"
                    /\ ag_response.supervisorAgentAliasId = "NOT_CREATED"
           /\ ag_response.Status = "FAILED"
                <=> \/ ag_response.supervisorAgentId = "NOT_CREATED"
                    \/ ag_response.supervisorAgentAliasId = "NOT_CREATED"
           /\ ag_response.Status # "FAILED"
                => /\ ag_response.supervisorAgentId = <<"agent", "eva_supervisor", sup_attempt>>
                   /\ ag_response.supervisorAgentAliasId
                         = <<"alias", ag_response.supervisorAgentId>>
                   /\ last_composition.calls = Composition
                   /\ ~last_composition.raised
                   /\ supervisor_exists
           /\ {"supervisorAgentId", "supervisorAgentAliasId", "KNOWLEDGE_BASES_JSON",
               "created_agents"} \subseteq DOMAIN ag_response

\* an Update request answered with the supervisor of the second attempt
C39_Witness ==
    /\ ag_pc = "done"
    /\ ag_request_type = "Update"
    /\ ag_response.Status # "FAILED"
    /\ ag_response.supervisorAgentId = <<"agent", "eva_supervisor", 2>>
    /\ ag_response.KNOWLEDGE_BASES_JSON = knowledge_bases

\* create_supervisor_agent returned the supervisor to the handler
SupervisorReturned ==
    ag_pc = "done" /\ ag_response.supervisorAgentId # "NOT_CREATED"

\* C17 (as stated): when create_supervisor_agent returns successfully, every agent
\* of created_agents has been associated as a collaborator of the supervisor.
C17_AllCreatedAssociated ==
    SupervisorReturned
        => last_composition.collaborator_count = Cardinality(DOMAIN created_agents)

\* C17 (amended): when create_supervisor_agent returns successfully, at least one
\* agent of created_agents has been associated as a collaborator of the returned
\* supervisor, and only agents of created_agents have; an agent whose alias
\* descriptor was not found or whose association raised is left out.
C17_SomeCreatedAssociated ==
    SupervisorReturned
        => /\ last_composition.collaborator_count >= 1
           /\ last_composition.collaborator_count <= Cardinality(DOMAIN created_agents)
           /\ last_composition.agent_id = ag_response.supervisorAgentId
           /\ "add_collaborators_to_supervisor" \in Called(last_composition)

\* the supervisor is returned with fewer collaborators than created agents
C17_Witness ==
    /\ SupervisorReturned
    /\ Cardinality(DOMAIN created_agents) = 3
    /\ last_composition.collaborator_count = 1

\* C14: a second run of create_specialized_agents with the same suffix, the agents of
\* the first run still existing, returns a result with the same agent names as the
\* first run.
C14_RerunSameAgents ==
    (run = 2 /\ run_idx > Len(agent_configs)) => run_created = first_created

(***************************************************************************)
(* Claims about replacing the supervisor.                                  *)
(***************************************************************************)

\* C16: in a composition attempt that found an agent of the supervisor's name,
\* create_agent is called for the supervisor only after delete_agent was called on
\* the id found and a get_agent on that id reported not-found.
C16_CreateAfterDeletionObserved ==
    (cd_pc \in {"create", "rest", "done"} /\ cd_agent_id # 0)
        => /\ cd_deleted = cd_agent_id
           /\ cd_not_found = cd_agent_id

\* the third attempt finds the agent the second attempt left behind, deletes it,
\* sees get_agent report not-found and creates the supervisor afterwards
C16_Witness ==
    /\ cd_pc = "rest"
    /\ cd_attempt = 3
    /\ cd_agent_id = sv_generation - 1
    /\ cd_agent_id >= 2
    /\ cd_not_found = cd_agent_id

\* C18: the wait for the deletion of an agent (like every polling wait of the
\* provisioning run) ends after a bounded number of polls, whatever the service
\* reports: a run that is polling leaves the polling loop.
C18_DeletionPollEnds == (cd_pc = "sleep") ~> (cd_pc \notin {"sleep", "get"})

\* C36: delete_agent is called only on an agent whose name is that of the
\* supervisor of this deployment: in every attempt the other agents of the account,
\* the specialists among them, are all still there.
C36_OnlySupervisorDeleted ==
    /\ deleted_agents \subseteq {SupervisorName}
    /\ sv_others = OtherAgents

\* the third attempt deleted the supervisor that an earlier attempt created, from a
\* listing in which a specialist and another deployment's supervisor come first
C36_Witness ==
    /\ cd_attempt = 3
    /\ cd_pc = "sleep"
    /\ Len(cd_summaries) = 3
    /\ cd_deleted = sv_generation
    /\ sv_generation >= 2
    /\ deleted_agents = {SupervisorName}

(***************************************************************************)
(* Claims about the pipeline of an agent.                                  *)
(***************************************************************************)

\* the pipeline of the current agent is at or past the attachments
Attaching ==
    \/ sp_pc \in {"create_agent_action_group", "associate_knowledge_base", "prepare_agent",
                  "wait_for_agent_prepared", "create_agent_alias", "registered"}
    \/ sp_ag_calls > 0
    \/ sp_kb_attached # NONE
    \/ sp_prepare_called

\* C21: for a specialist agent, create_agent_action_group, associate_knowledge_base
\* and prepare_agent are called only after a get_agent of wait_for_agent_status
\* returned NOT_PREPARED or PREPARED; when it returned FAILED, or the attempts ran
\* out, none of them is called for that agent.
C21_AttachAfterReady ==
    ~SpSupervisor =>
        /\ Attaching => sp_status \in {"NOT_PREPARED", "PREPARED"}
        /\ (sp_pc = "raised" /\ (sp_status = "FAILED" \/ sp_polls = WaitMaxAttempts(sp_idx)))
               => ~Attaching

C21_Witness ==
    /\ ~SpSupervisor
    /\ sp_ag_attached
    /\ sp_prepare_called
    /\ sp_status = "NOT_PREPARED"

\* the poll attempts of a specialist ran out
C21_AttemptsRanOut ==
    /\ ~SpSupervisor
    /\ sp_pc = "raised"
    /\ sp_polls = WaitMaxAttempts(sp_idx)
    /\ sp_status = "CREATING"

\* the current agent is reported as created
Reported == IF SpSupervisor THEN sp_pc = "done" ELSE SpAgentName \in sp_created

\* C22: an alias is created for an agent, specialist or supervisor, only after
\* prepare_agent was called on it and a later get_agent returned PREPARED; when a
\* get_agent after prepare_agent returns FAILED, no alias is created for the agent
\* and the agent is not reported as created.
C22_AliasAfterPrepared ==
    /\ sp_prepared_status # NONE => sp_prepare_called
    /\ (sp_alias \/ sp_pc \in {"create_agent_alias", "registered"} \/ Reported)
           => sp_prepare_called /\ sp_prepared_status = "PREPARED"
    /\ sp_prepared_status = "FAILED"
           => sp_pc \in {"raised", "failed"} /\ ~sp_alias /\ ~Reported

C22_Witness ==
    /\ SpSupervisor
    /\ sp_pc = "done"
    /\ sp_alias
    /\ sp_prepared_status = "PREPARED"
    /\ sp_attempt = 2

\* a specialist whose preparation failed
C22_PreparationFailed ==
    /\ ~SpSupervisor
    /\ sp_pc = "raised"
    /\ sp_prepared_status = "FAILED"

\* C27: create_agent_action_group is called again only after the agent-not-ready
\* error ("Agent is in ... state"); any other error, another validation error
\* included, is raised at its first occurrence.
C27_RetriedOnlyNotReady == sp_retried \subseteq {"Agent is in"}

\* C28: create_agent_action_group_with_retry calls create_agent_action_group at
\* most 5 times and makes no call after the first that returns; it sleeps
\* 5 * 2^k seconds after the k-th (0-based) retryable failure, and raises at the
\* fifth failure.
C28_BoundedBackoff ==
    /\ sp_ag_calls <= 5
    /\ sp_ag_attached => sp_pc # "create_agent_action_group"
    /\ Len(sp_sleeps) < 5
    /\ \A k \in 0..3 : k + 1 \in DOMAIN sp_sleeps =>
           sp_sleeps[k + 1] = <<5, 10, 20, 40>>[k + 1]
    /\ (sp_pc = "create_agent_action_group" \/ sp_ag_attached)
           => Len(sp_sleeps) = sp_ag_calls - (IF sp_ag_attached THEN 1 ELSE 0)
    /\ (sp_ag_calls = 5 /\ ~sp_ag_attached) => sp_pc = "raised"

C28_Witness ==
    /\ sp_ag_calls = 5
    /\ ~sp_ag_attached
    /\ sp_pc = "raised"
    /\ sp_sleeps = <<5, 10, 20, 40>>

\* the specialists whose pipeline is over
Processed == {agent_configs[k].agent_name : k \in 1..(sp_idx - 1)}

\* associate_knowledge_base raised for the current agent
AssociationRaised ==
    /\ sp_pc = "raised"
    /\ sp_status \in {"NOT_PREPARED", "PREPARED"}
    /\ get_agent_type(SpAgentName) \in DOMAIN sp_knowledge_bases
    /\ agent_configs[sp_idx].action_group_name # NONE => sp_ag_attached
    /\ ~sp_prepare_called

\* C29: a knowledge base is associated with a specialist only when the mapping
\* has an entry for the agent's own type, and the id is that entry; a specialist
\* that gets as far as prepare_agent has a knowledge base exactly when the mapping
\* has such an entry (the search agent never has); an association that raises
\* ends the pipeline of that agent, and an agent is missing from created_agents
\* only when its own pipeline raised.
C29_OwnKnowledgeBase ==
    ~SpSupervisor =>
        /\ sp_kb_attached # NONE =>
               /\ get_agent_type(SpAgentName) \in DOMAIN sp_knowledge_bases
               /\ sp_kb_attached = sp_knowledge_bases[get_agent_type(SpAgentName)]
        /\ sp_prepare_called =>
               (sp_kb_attached # NONE
                    <=> get_agent_type(SpAgentName) \in DOMAIN sp_knowledge_bases)
        /\ SpAgentName = "eva_search" => sp_kb_attached = NONE
        /\ sp_created \ {SpAgentName} = Processed \ sp_raised
        /\ AssociationRaised => sp_kb_attached = NONE /\ SpAgentName \notin sp_created

\* payroll is registered with its own knowledge base after the pipeline of hr raised
C29_Witness ==
    /\ SpAgentName = "eva_payroll"
    /\ sp_pc = "registered"
    /\ sp_kb_attached = "KB_PAYROLL"
    /\ "eva_hr" \in sp_raised
    /\ "hr" \in DOMAIN sp_knowledge_bases

\* with no entry for its type, hr is prepared without a knowledge base
C29_AbsentProceeds ==
    /\ SpAgentName = "eva_hr"
    /\ "hr" \notin DOMAIN sp_knowledge_bases
    /\ sp_prepare_called
    /\ sp_kb_attached = NONE

(***************************************************************************)
(* Claims about start_ingestion_job.                                       *)
(***************************************************************************)

\* C23: once get_knowledge_base has returned FAILED, DELETING or DELETED, the
\* wait is over and no ingestion job is started for the knowledge base.
C23_InvalidStatusIsFatal ==
    ij_kb_seen \cap {"FAILED", "DELETING", "DELETED"} # {}
        => ij_pc # "get_knowledge_base" /\ ~ij_started

\* C24: get_ingestion_job is called at most 5 times and never after it returned
\* COMPLETE, FAILED or STOPPED; the function returns the job as last observed,
\* terminal or not, and never raises: after an error of a call it returns a record
\* with status 'ERROR'.
C24_BoundedMonitor ==
    /\ Len(ij_polled) <= 5
    /\ \A k \in 1..(Len(ij_polled) - 1) : ij_polled[k] \notin {"COMPLETE", "FAILED", "STOPPED"}
    /\ ~ij_result.raised
    /\ ij_pc = "returned" =>
          \/ ij_result.status = "ERROR" /\ ij_result.ingestionJobId = "error"
          \/ /\ ij_result.ingestionJobId = "J1"
             /\ ij_polled # <<>> => ij_result.status = ij_polled[Len(ij_polled)]
             /\ ij_result.status \notin {"COMPLETE", "FAILED", "STOPPED"} => Len(ij_polled) = 5

\* the fifth poll still reports the job in progress, and that record is returned
C24_Witness ==
    /\ ij_pc = "returned"
    /\ Len(ij_polled) = 5
    /\ ij_result.status = "IN_PROGRESS"

\* a call raised and the function returned the ERROR record
C24_ErrorReturned ==
    /\ ij_pc = "returned"
    /\ ij_polled # <<>>
    /\ ij_result.status = "ERROR"

(***************************************************************************)
(* Claims about a pass of the knowledge-base handler over a config.        *)
(***************************************************************************)

C26_KbRetriesThenIsolated ==
    /\ kp_kb_requests <= 5
    /\ kp_kb # 0 => kp_kb = kp_kb_requests
    /\ (kp_kb = 0 /\ kp_pc = "raised") =>
          kp_kb_requests = 5 /\ ~kp_ds_called /\ ~kp_job_called
    /\ (kp_kb = 0 /\ kp_kb_requests = 5) => kp_pc \in {"raised", "done"}
    /\ kp_ds_called => kp_kb # 0
    /\ kp_created \cap kp_raised = {}
    /\ {KbConfigs("aaaaa")[k].folder : k \in 1..(kp_idx - 1)} \subseteq kp_created \cup kp_raised
    /\ kp_pc = "done" =>
          kp_created \cup kp_raised = {KbConfigs("aaaaa")[k].folder : k \in 1..5}

\* the knowledge base of payroll is created at the fifth request, after that of hr
\* was given up
C26_Witness ==
    /\ kp_idx = 2
    /\ <<"hr">> \in kp_raised
    /\ kp_kb = 5
    /\ kp_pc = "appended"

(***************************************************************************)
(* Claims about validate_bedrock_role.                                     *)
(***************************************************************************)

\* C30: validate_bedrock_role is an idempotent upsert: when it is run again after
\* a run that returned, the second run makes no write to the role.
C30_SecondRunWritesNothing ==
    (vr_run = 2 /\ vr_first.returned) => vr_writes = {}

\* C30 (the two writes): the trust policy is replaced only when no Allow statement
\* lists bedrock.amazonaws.com, and the inline policy is put only when the role
\* has none of that name.
C30_WritesOnlyWhenMissing ==
    [][/\ vr_trust' # vr_trust => ~BedrockFound(vr_trust)
       /\ vr_inline' # vr_inline => ~vr_inline]_vars

\* C30 (when every lookup is answered): after a run that returned and ignored no
\* error of get_role_policy, the second run makes no write to the role.
C30_NoWriteAfterAnsweredRun ==
    (vr_run = 2 /\ vr_first.returned /\ ~vr_first.swallowed) => vr_writes = {}

\* the first run made both writes and the second run returned
C30_BothWrittenOnce ==
    /\ vr_run = 2
    /\ vr_pc = "returned"
    /\ vr_first.writes = {"update_assume_role_policy", "put_role_policy"}
    /\ vr_writes = {}

(***************************************************************************)
(* Claims about how the provisioning handlers begin.                       *)
(***************************************************************************)

\* C37: each of the three handlers answers a Delete request with the
\* PhysicalResourceId of the event and without a service call, at the moment it
\* returns and at every step before.
C37_DeleteReturnsGivenIdNoCalls ==
    /\ \A k \in DOMAIN dr_log :
          dr_log[k].event.RequestType = "Delete"
              => /\ dr_log[k].response.PhysicalResourceId
                        = dr_log[k].event.PhysicalResourceId
                 /\ dr_log[k].calls = <<>>
    /\ (dr_pc # "idle" /\ dr_event.RequestType = "Delete") => dr_calls = <<>>

\* the three handlers have each answered a Delete request for resource-2
C37_Witness ==
    /\ Len(dr_log) = 3
    /\ {dr_log[k].handler : k \in DOMAIN dr_log} = Handlers
    /\ \A k \in DOMAIN dr_log :
          /\ dr_log[k].event = [RequestType |-> "Delete", PhysicalResourceId |-> "resource-2"]
          /\ dr_log[k].response.PhysicalResourceId = "resource-2"

====
